---- MODULE Spec2Model ----
(***************************************************************************)
(* netlds: the structured Gaussian approximate posterior of                *)
(* src/netlds/inference.py (SmoothingLDS / SmoothingLDSCoupled).           *)
(*                                                                         *)
(* Numbers are exact.  A scalar is a finite sum  sum_r c_r * sqrt(r)  of   *)
(* rational multiples of square roots of squarefree positive integers,     *)
(* held as a function from the radicand r to the rational c_r # 0 (the     *)
(* rationals are the scalars whose only radicand is 1, zero is the empty   *)
(* sum).  The square roots taken by a dense Cholesky factorization are     *)
(* therefore computed, not approximated, and every matrix product, inverse *)
(* and triangular solve below is the real-number result of the tensor      *)
(* operation it models.                                                    *)
(***************************************************************************)
EXTENDS Integers, Sequences, FiniteSets, TLC

\* ------------------------------------------------------------------------
\* Bounds of the model
\* ------------------------------------------------------------------------
\* the full precision matrix has at most MaxLatents rows: num_time_pts * dim_latent
MaxLatents == 4
MaxBatch == 2

\* a function held by its values (every tensor below is a computed array)
Val(f) == f @@ <<>>

\* ------------------------------------------------------------------------
\* Rational numbers <<numerator, denominator>>, denominator > 0, reduced
\* ------------------------------------------------------------------------
Abs(x) == IF x < 0 THEN -x ELSE x

RECURSIVE GCD(_, _)
GCD(a, b) == IF b = 0 THEN a ELSE GCD(b, a % b)

Rat(n, d) ==
    LET g == GCD(Abs(n), Abs(d))
        s == IF d < 0 THEN -1 ELSE 1
    IN  <<(s * n) \div g, (s * d) \div g>>

RZero == <<0, 1>>
ROne == <<1, 1>>
\* sums and products reduce by common factors before multiplying
RAdd(p, q) ==
    LET g == GCD(p[2], q[2])
    IN  Rat(p[1] * (q[2] \div g) + q[1] * (p[2] \div g), (p[2] \div g) * q[2])
RMul(p, q) ==
    LET g1 == GCD(Abs(p[1]), q[2])
        g2 == GCD(Abs(q[1]), p[2])
    IN  IF p[1] = 0 \/ q[1] = 0 THEN RZero
        ELSE <<(p[1] \div g1) * (q[1] \div g2), (p[2] \div g2) * (q[2] \div g1)>>
RNeg(p) == <<-p[1], p[2]>>
RInv(p) == Rat(p[2], p[1])
RPos(p) == p[1] > 0

\* ------------------------------------------------------------------------
\* Scalars: finite sums of rational multiples of square roots.  A radicand is
\* a squarefree positive integer, held as the set of its prime factors ({} is
\* the radicand 1); sqrt(r) over the squarefree r are linearly independent
\* over the rationals, so equal reals have equal representations.
\* ------------------------------------------------------------------------
NZero == Val([r \in {} |-> RZero])
NRat(q) == IF q[1] = 0 THEN NZero ELSE Val([r \in {{}} |-> q])
NInt(k) == NRat(<<k, 1>>)
NFrac(n, d) == NRat(Rat(n, d))
NOne == NInt(1)

Coef(x, r) == IF r \in DOMAIN x THEN x[r] ELSE RZero
IsRational(x) == DOMAIN x \subseteq {{}}
RatOf(x) == Coef(x, {})

NAdd(x, y) ==
    LET D == DOMAIN x \cup DOMAIN y
        S == {r \in D : RAdd(Coef(x, r), Coef(y, r))[1] # 0}
    IN  Val([r \in S |-> RAdd(Coef(x, r), Coef(y, r))])

NScale(q, x) == IF q[1] = 0 THEN NZero ELSE Val([r \in DOMAIN x |-> RMul(q, x[r])])
NNeg(x) == Val([r \in DOMAIN x |-> RNeg(x[r])])
NSub(x, y) == NAdd(x, NNeg(y))

\* sqrt(r) * sqrt(s) = (product of the common primes) * sqrt(r s / common^2)
RadMul(r, s) == (r \ s) \cup (s \ r)

\* q times the product of the primes in S, q divided by that product
RECURSIVE RTimes(_, _)
RTimes(q, S) ==
    IF S = {} THEN q
    ELSE LET e == CHOOSE e \in S : TRUE IN RTimes(RMul(q, <<e, 1>>), S \ {e})
RECURSIVE ROver(_, _)
ROver(q, S) ==
    IF S = {} THEN q
    ELSE LET e == CHOOSE e \in S : TRUE IN ROver(RMul(q, <<1, e>>), S \ {e})

RECURSIVE RSum(_, _)
RSum(f, S) ==
    IF S = {} THEN RZero
    ELSE LET e == CHOOSE e \in S : TRUE IN RAdd(f[e], RSum(f, S \ {e}))

NMul(x, y) ==
    LET P == (DOMAIN x) \X (DOMAIN y)
        term == Val([p \in P |-> RMul(RTimes(x[p[1]], p[1] \cap p[2]), y[p[2]])])
        rads == {RadMul(p[1], p[2]) : p \in P}
        tot == Val([r \in rads |-> RSum(term, {p \in P : RadMul(p[1], p[2]) = r})])
    IN  Val([r \in {r \in rads : tot[r][1] # 0} |-> tot[r]])

\* the smallest prime factor of n > 1, searched in the ranges lo..2*lo in
\* turn as long as lo*lo <= n (46340^2 is the largest square below 2^31)
Min(a, b) == IF a < b THEN a ELSE b
HasFactorIn(n, lo, hi) == \E k \in lo..hi : n % k = 0
LeastFactorIn(n, lo, hi) ==
    CHOOSE k \in lo..hi : n % k = 0 /\ \A j \in lo..(k - 1) : n % j # 0
RECURSIVE LeastFactorFrom(_, _)
LeastFactorFrom(n, lo) ==
    LET hi == Min(2 * lo, 46340)
    IN  IF lo > 46340 \/ lo * lo > n THEN n
        ELSE IF HasFactorIn(n, lo, hi) THEN LeastFactorIn(n, lo, hi)
        ELSE LeastFactorFrom(n, hi + 1)
LeastFactor(n) == LeastFactorFrom(n, 2)

\* n = SqPart(n)^2 * (product of OddPrimes(n)), OddPrimes(n) the primes of odd
\* multiplicity in n
RECURSIVE SqPart(_)
SqPart(n) ==
    IF n = 1 THEN 1
    ELSE LET p == LeastFactor(n)
         IN  IF n % (p * p) = 0 THEN p * SqPart(n \div (p * p)) ELSE SqPart(n \div p)
RECURSIVE OddPrimes(_)
OddPrimes(n) ==
    IF n = 1 THEN {}
    ELSE LET p == LeastFactor(n)
         IN  IF n % (p * p) = 0 THEN OddPrimes(n \div (p * p))
             ELSE {p} \cup OddPrimes(n \div p)

\* square root of a positive rational p/q = (kp / (kq*mq)) * sqrt(mp*mq)
\* where p = kp^2 mp, q = kq^2 mq, mp and mq squarefree
NSqrt(q) ==
    LET kp == SqPart(q[1])
        kq == SqPart(q[2])
    IN  Val([r \in {OddPrimes(q[1]) \cup OddPrimes(q[2])} |->
                Rat(kp, kq * (q[2] \div (kq * kq)))])

\* reciprocal of a single term c*sqrt(r): sqrt(r) / (c*r)
NInv(x) ==
    LET r == CHOOSE r \in DOMAIN x : TRUE
    IN  Val([s \in {r} |-> ROver(RInv(x[r]), r)])

NDiv(x, y) == NMul(x, NInv(y))

\* ------------------------------------------------------------------------
\* Vectors (sequences of scalars) and matrices (sequences of rows)
\* ------------------------------------------------------------------------
\* f[1] + ... + f[n]
RECURSIVE NSum(_, _)
NSum(f, n) == IF n = 0 THEN NZero ELSE NAdd(NSum(f, n - 1), f[n])

Dot(u, v) == NSum(Val([k \in (DOMAIN u) \cap (DOMAIN v) |-> NMul(u[k], v[k])]), Len(u))

Rows(M) == Len(M)
Cols(M) == Len(M[1])
Col(M, j) == Val([i \in DOMAIN M |-> M[i][j]])

\* tf.transpose of the two inner dimensions / transpose_b=True
Transpose(M) == Val([j \in 1..Cols(M) |-> Col(M, j)])
\* tf.matmul
MatMul(X, Y) == Val([i \in 1..Rows(X) |-> Val([j \in 1..Cols(Y) |-> Dot(X[i], Col(Y, j))])])
MatVec(X, v) == Val([i \in DOMAIN X |-> Dot(X[i], v)])
MatAdd(X, Y) ==
    Val([i \in (DOMAIN X) \cap (DOMAIN Y) |-> Val([j \in 1..Cols(X) |-> NAdd(X[i][j], Y[i][j])])])
MatSub(X, Y) ==
    Val([i \in (DOMAIN X) \cap (DOMAIN Y) |-> Val([j \in 1..Cols(X) |-> NSub(X[i][j], Y[i][j])])])
MatNeg(X) == Val([i \in 1..Rows(X) |-> Val([j \in 1..Cols(X) |-> NNeg(X[i][j])])])
MatScale(q, X) == Val([i \in 1..Rows(X) |-> Val([j \in 1..Cols(X) |-> NScale(q, X[i][j])])])
VecAdd(u, v) == Val([i \in (DOMAIN u) \cap (DOMAIN v) |-> NAdd(u[i], v[i])])
VecSub(u, v) == Val([i \in (DOMAIN u) \cap (DOMAIN v) |-> NSub(u[i], v[i])])

\* np.eye(d), zeros
Eye(d) == Val([i \in 1..d |-> Val([j \in 1..d |-> IF i = j THEN NOne ELSE NZero])])
ZeroMat(d) == Val([i \in 1..d |-> Val([j \in 1..d |-> NZero])])
ZeroVec(d) == Val([i \in 1..d |-> NZero])
IsSymmetric(M) == M = Transpose(M)

\* the matrix without row i and column j
Minor(M, i, j) ==
    Val([a \in 1..(Rows(M) - 1) |->
        Val([b \in 1..(Cols(M) - 1) |->
            M[IF a < i THEN a ELSE a + 1][IF b < j THEN b ELSE b + 1]])])

\* determinant by expansion along the first row
RECURSIVE Det(_)
Det(M) ==
    IF Rows(M) = 1 THEN M[1][1]
    ELSE NSum(Val([j \in 1..Cols(M) |->
                      NScale(IF j % 2 = 1 THEN ROne ELSE RNeg(ROne),
                             NMul(M[1][j], Det(Minor(M, 1, j))))]),
              Cols(M))

Cofactor(M, i, j) ==
    IF Rows(M) = 1 THEN NOne
    ELSE NScale(IF (i + j) % 2 = 0 THEN ROne ELSE RNeg(ROne), Det(Minor(M, i, j)))

\* tf.matrix_inverse of a rational matrix: adjugate over determinant
Invertible(M) == Det(M) # NZero
matrix_inverse(M) ==
    LET dinv == RInv(RatOf(Det(M)))
    IN  Val([i \in 1..Rows(M) |-> Val([j \in 1..Cols(M) |-> NScale(dinv, Cofactor(M, j, i))])])

\* ------------------------------------------------------------------------
\* Dense Cholesky factorization and triangular solves (tf.cholesky,
\* tf.matrix_triangular_solve), as used by netlds.chol_utils
\* ------------------------------------------------------------------------
\* entry (i, j), j <= i, of the lower-triangular factor of M:
\*   s(i,j) = M[i][j] - sum_{k<j} L[i][k] L[j][k]
\*   L[j][j] = sqrt(s(j,j)),  L[i][j] = s(i,j) / L[j][j]
RECURSIVE CholEntry(_, _, _)
CholResidual(M, i, j) ==
    NSub(M[i][j],
         NSum(Val([k \in 1..(j - 1) |-> NMul(CholEntry(M, i, k), CholEntry(M, j, k))]), j - 1))
CholEntry(M, i, j) ==
    IF j > i THEN NZero
    ELSE IF i = j THEN NSqrt(RatOf(CholResidual(M, j, j)))
    ELSE NDiv(CholResidual(M, i, j), CholEntry(M, j, j))

\* the factorization succeeds iff every pivot s(j,j) is positive
RECURSIVE PivotsPositive(_, _)
PivotsPositive(M, j) ==
    \/ j = 0
    \/ /\ PivotsPositive(M, j - 1)
       /\ RPos(RatOf(CholResidual(M, j, j)))
IsPosDef(M) == PivotsPositive(M, Rows(M))

cholesky(M) == Val([i \in 1..Rows(M) |-> Val([j \in 1..Rows(M) |-> CholEntry(M, i, j)])])

\* solve L x = b for lower-triangular L (forward substitution)
RECURSIVE FwdEntry(_, _, _)
FwdEntry(L, b, i) ==
    NDiv(NSub(b[i], NSum(Val([k \in 1..(i - 1) |-> NMul(L[i][k], FwdEntry(L, b, k))]), i - 1)),
         L[i][i])
SolveLower(L, b) == Val([i \in 1..Len(b) |-> FwdEntry(L, b, i)])

\* solve L^T x = b for lower-triangular L (backward substitution)
RECURSIVE BwdEntry(_, _, _)
BwdEntry(L, b, i) ==
    LET n == Len(b)
    IN  NDiv(NSub(b[i],
                  NSum(Val([k \in 1..(n - i) |-> NMul(L[i + k][i], BwdEntry(L, b, i + k))]),
                       n - i)),
             L[i][i])
SolveLowerT(L, b) == Val([i \in 1..Len(b) |-> BwdEntry(L, b, i)])

\* X * (L^T)^-1 for a matrix X: row i of the result solves L y = X[i]
RightSolveLowerT(X, L) == Val([i \in 1..Rows(X) |-> SolveLower(L, X[i])])

\* ------------------------------------------------------------------------
\* netlds.chol_utils: block-tridiagonal Cholesky factorization and the
\* block-triangular solves against its factor
\* ------------------------------------------------------------------------
\* one step of the recursion, from the factor prev of the first t-1 blocks:
\*   E_(t-1) = L_(t-1) (C_(t-1)^T)^-1,  C_t = cholesky(D_t - E_(t-1) E_(t-1)^T)
\* ok is FALSE from the first block whose dense Cholesky fails
CholStep(prev, D, L) ==
    LET t == Len(prev.C) + 1
        Eprev == RightSolveLowerT(L[t - 1], prev.C[t - 1])
        S == MatSub(D[t], MatMul(Eprev, Transpose(Eprev)))
    IN  IF IsPosDef(S)
        THEN [ok |-> TRUE, C |-> Append(prev.C, cholesky(S)), E |-> Append(prev.E, Eprev)]
        ELSE [ok |-> FALSE, C |-> prev.C, E |-> Append(prev.E, Eprev)]

\* the steps after the first, in order, from the factor prev of the blocks
\* before them
RECURSIVE CholSteps(_, _, _)
CholSteps(prev, D, L) ==
    IF ~prev.ok \/ Len(prev.C) = Len(D) THEN prev
    ELSE CholSteps(CholStep(prev, D, L), D, L)

\* C_1 = cholesky(D_1), then the steps t = 2..Len(D)
blk_tridiag_chol(D, L) ==
    IF IsPosDef(D[1])
    THEN CholSteps([ok |-> TRUE, C |-> <<cholesky(D[1])>>, E |-> <<>>], D, L)
    ELSE [ok |-> FALSE, C |-> <<>>, E |-> <<>>]

\* forward substitution  X_1 = C_1^-1 B_1,  X_t = C_t^-1 (B_t - E_(t-1) X_(t-1))
\* X holds <<X_1, ..., X_(t-1)>>
FwdStep(X, C, E, B) ==
    LET t == Len(X) + 1
    IN  Append(X, SolveLower(C[t], VecSub(B[t], MatVec(E[t - 1], X[t - 1]))))
RECURSIVE BlkForward(_, _, _, _)
BlkForward(X, C, E, B) ==
    IF Len(X) = Len(C) THEN X ELSE BlkForward(FwdStep(X, C, E, B), C, E, B)

\* backward substitution  X_T = C_T^-T B_T,  X_t = C_t^-T (B_t - E_t^T X_(t+1));
\* X holds <<X_(t+1), ..., X_T>>
BwdStep(X, C, E, B) ==
    LET t == Len(C) - Len(X)
    IN  <<SolveLowerT(C[t], VecSub(B[t], MatVec(Transpose(E[t]), X[1])))>> \o X
RECURSIVE BlkBackward(_, _, _, _)
BlkBackward(X, C, E, B) ==
    IF Len(X) = Len(C) THEN X ELSE BlkBackward(BwdStep(X, C, E, B), C, E, B)

blk_chol_inv(C, E, B, lower, transpose) ==
    CASE lower /\ ~transpose -> BlkForward(<<SolveLower(C[1], B[1])>>, C, E, B)
      [] ~lower /\ transpose -> BlkBackward(<<SolveLowerT(C[Len(C)], B[Len(C)])>>, C, E, B)

\* ------------------------------------------------------------------------
\* State of a SmoothingLDS object and of the session that runs its graph
\* ------------------------------------------------------------------------
VARIABLES
    phase,          \* "new" | "built" | "error": position in the object's life
    dim_latent,     \* self.dim_latent
    num_time_pts,   \* self.num_time_pts
    z0_mean,        \* tf variable z0_mean
    A,              \* tf variable A
    Q_sqrt,         \* tf variable Q_sqrt
    Q0_sqrt,        \* tf variable Q0_sqrt
    run,            \* tensors evaluated by the latest sess.run of the graph
    again,          \* history: the latest call of generate_samples had the
                    \* variables, the observations and the noise drawn of the
                    \* call just before it
    apart,          \* history: the latest call of generate_samples had a
                    \* sequence (observations and noise) of the call just
                    \* before it, in a batch that was not the same
    gen_params,     \* self.gen_params, the dictionary of supplied initial values
    gen,            \* the generative model object (generative.py): its class,
                    \* its position in life, its attributes and the result
                    \* of the latest call
    pair,           \* a coupled pair, LDSCoupled and SmoothingLDSCoupled: the
                    \* tensor objects and the attributes that refer to them
    mf              \* an inference network seen as a Python object (the
                    \* kinds of its attributes), or the log-variances
                    \* MeanFieldGaussian.evaluate_entropy is applied to

vars == <<phase, dim_latent, num_time_pts, z0_mean, A, Q_sqrt, Q0_sqrt, run, again, apart,
          gen_params, gen, pair, mf>>
\* the objects beside the SmoothingLDS object
other_objects == <<gen, pair, mf>>

\* ------------------------------------------------------------------------
\* Tensors of the graph that depend on the variables only
\* ------------------------------------------------------------------------
Q0 == MatMul(Q0_sqrt, Transpose(Q0_sqrt))
Q == MatMul(Q_sqrt, Transpose(Q_sqrt))
Q0inv == matrix_inverse(Q0)
Qinv == matrix_inverse(Q)

\* faulty variant: Qinv in the place of Q0inv
AQ0invA_Qinv_UsesQinv == MatAdd(MatMul(MatMul(A, Qinv), Transpose(A)), Qinv)
AQ0invA_Qinv == MatAdd(MatMul(MatMul(A, Q0inv), Transpose(A)), Qinv)
\* faulty variant: the A-dependent term left out
AQinvA_Qinv_NoA == Qinv
AQinvA_Qinv == MatAdd(MatMul(MatMul(A, Qinv), Transpose(A)), Qinv)
AQ0inv == MatMul(MatNeg(A), Q0inv)
AQinv == MatMul(MatNeg(A), Qinv)

\* tf.tile along a new leading axis: n copies; a negative multiple is rejected
TileOK(n) == n >= 0
Tile(X, n) == Val([k \in 1..n |-> X])

\* faulty variant: the last block without its A-dependent term, the Q0inv term tiled
Sinv_diag_static_LastQinv ==
    <<Q0inv>> \o Tile(AQ0invA_Qinv, num_time_pts - 2) \o <<Qinv>>
\* faulty variant: the Q0inv term tiled over every block after the first
Sinv_diag_static_TileQ0 ==
    <<Q0inv, AQ0invA_Qinv>> \o Tile(AQ0invA_Qinv, num_time_pts - 2)
\* static part of the diagonal blocks, shape [num_time_pts, d, d]
Sinv_diag_static == <<Q0inv, AQ0invA_Qinv>> \o Tile(AQinvA_Qinv, num_time_pts - 2)
\* faulty variant: the first off-diagonal block built like the others
Sinv_ldiag0_AllAQinv == Tile(AQinv, num_time_pts - 1)
\* lower off-diagonal blocks, shape [num_time_pts - 1, d, d]
Sinv_ldiag0 == <<AQ0inv>> \o Tile(AQinv, num_time_pts - 2)

\* ------------------------------------------------------------------------
\* Tensors of the graph that depend on the fed observations.  The encoder
\* (inference_mlp) is a function of the observations alone; a feed is given
\* here by the encoder outputs it produces: for each batch element b and
\* time t the vector m_psi[b][t] and the matrix r_psi_sqrt[b][t].
\* ------------------------------------------------------------------------
BatchOf(x) == 1..Len(x)
Times == 1..num_time_pts

\* faulty variant: the factor multiplied by itself, not by its transpose
c_psi_inv_NoTranspose(r_psi_sqrt) ==
    Val([b \in BatchOf(r_psi_sqrt) |->
        Val([t \in Times |-> MatMul(r_psi_sqrt[b][t], r_psi_sqrt[b][t])])])
c_psi_inv(r_psi_sqrt) ==
    Val([b \in BatchOf(r_psi_sqrt) |->
        Val([t \in Times |-> MatMul(r_psi_sqrt[b][t], Transpose(r_psi_sqrt[b][t]))])])

\* tf.add broadcasts the static blocks over the batch
Sinv_diag(c) ==
    Val([b \in BatchOf(c) |-> Val([t \in Times |-> MatAdd(Sinv_diag_static[t], c[b][t])])])

\* faulty variant: the scan's initializer (the static blocks) factorized, not its input
scan_chol_Initializer(inputs) == blk_tridiag_chol(Sinv_diag_static, Sinv_ldiag0)
\* one step of the scan over the batch: the factor of one element's blocks
scan_chol(inputs) == blk_tridiag_chol(inputs, Sinv_ldiag0)

chol_decomp_Sinv(Sd) == Val([b \in BatchOf(Sd) |-> scan_chol(Sd[b])])

\* faulty variant: every batch element given the data term of the first one
ia_FirstElement(c, m_psi) ==
    Val([b \in BatchOf(m_psi) |-> Val([t \in Times |-> MatVec(c[1][t], m_psi[1][t])])])
ia(c, m_psi) ==
    Val([b \in BatchOf(m_psi) |-> Val([t \in Times |-> MatVec(c[b][t], m_psi[b][t])])])

\* faulty variant: the two substitutions in the other order
scan_chol_inv_BackwardFirst(chol_decomp_Sinv_0, chol_decomp_Sinv_1, ia_b) ==
    LET ib == blk_chol_inv(chol_decomp_Sinv_0, chol_decomp_Sinv_1, ia_b, FALSE, TRUE)
    IN  blk_chol_inv(chol_decomp_Sinv_0, chol_decomp_Sinv_1, ib, TRUE, FALSE)
scan_chol_inv(chol_decomp_Sinv_0, chol_decomp_Sinv_1, ia_b) ==
    LET ib == blk_chol_inv(chol_decomp_Sinv_0, chol_decomp_Sinv_1, ia_b, TRUE, FALSE)
    IN  blk_chol_inv(chol_decomp_Sinv_0, chol_decomp_Sinv_1, ib, FALSE, TRUE)

post_z_means(chol, ia_all) ==
    Val([b \in BatchOf(ia_all) |-> scan_chol_inv(chol[b].C, chol[b].E, ia_all[b])])

\* faulty variant: the noise solved like the mean, forward then backward
scan_chol_half_inv_Full(chol_decomp_Sinv_0, chol_decomp_Sinv_1, samples) ==
    scan_chol_inv(chol_decomp_Sinv_0, chol_decomp_Sinv_1, samples)
scan_chol_half_inv(chol_decomp_Sinv_0, chol_decomp_Sinv_1, samples) ==
    blk_chol_inv(chol_decomp_Sinv_0, chol_decomp_Sinv_1, samples, FALSE, TRUE)

post_z_samples(chol, means, samples_z) ==
    Val([b \in BatchOf(means) |->
        LET rands == scan_chol_half_inv(chol[b].C, chol[b].E, samples_z[b])
        IN  Val([t \in Times |-> VecAdd(means[b][t], rands[t])])])

\* tf.matrix_diag_part of the factor's diagonal blocks: the arguments of the
\* logarithms summed by evaluate_entropy, per batch element
DiagParts(chol) ==
    Val([b \in BatchOf(chol) |->
        Val([t \in Times |-> Val([i \in 1..dim_latent |-> chol[b].C[t][i][i]])])])

\* evaluate_entropy:
\*   ln_det = -2 * sum_{t,i} mean_b log C[b][t][i][i]
\*   entropy = ln_det / 2 + dim_latent * num_time_pts / 2 * (1 + log(2 pi))
\* kept in closed form: entropy = log_coef * sum_{b,t,i} log(log_args[b][t][i])
\*                                + gauss_coef * (1 + log(2 pi))
\* faulty variant: the logs summed over the batch, not averaged
evaluate_entropy_SumOverBatch(chol) ==
    [log_args |-> DiagParts(chol),
     log_coef |-> RMul(<<-2, 1>>, Rat(1, 2)),
     gauss_coef |-> Rat(dim_latent * num_time_pts, 2)]
evaluate_entropy(chol) ==
    [log_args |-> DiagParts(chol),
     log_coef |-> RMul(RMul(<<-2, 1>>, Rat(1, Len(chol))), Rat(1, 2)),
     gauss_coef |-> Rat(dim_latent * num_time_pts, 2)]

\* ------------------------------------------------------------------------
\* Values fed to and drawn by the graph
\* ------------------------------------------------------------------------
\* 1 above the diagonal
UpperShift(d) == Val([i \in 1..d |-> Val([j \in 1..d |-> IF j = i + 1 THEN NOne ELSE NZero])])
\* 1 in the first column
FirstCol(d) == Val([i \in 1..d |-> Val([j \in 1..d |-> IF j = 1 THEN NOne ELSE NZero])])

\* the values _initialize_model_vars gives the variables
DefaultValues(d) ==
    [z0_mean |-> <<ZeroVec(d)>>, A |-> MatScale(Rat(1, 2), Eye(d)),
     Q_sqrt |-> Eye(d), Q0_sqrt |-> Eye(d)]
\* values an optimizer step may leave in the trainable variables
TrainedValues(d) ==
    {DefaultValues(d),
     [z0_mean |-> <<ZeroVec(d)>>, A |-> MatAdd(MatScale(<<2, 1>>, Eye(d)), UpperShift(d)),
      Q_sqrt |-> Eye(d), Q0_sqrt |-> MatScale(Rat(1, 2), Eye(d))],
     [z0_mean |-> <<Val([i \in 1..d |-> NOne])>>, A |-> MatAdd(Eye(d), UpperShift(d)),
      Q_sqrt |-> MatAdd(Eye(d), Transpose(UpperShift(d))), Q0_sqrt |-> Eye(d)]}

\* encoder outputs for one sequence of observations
DataNames == <<"none", "dense", "sparse">>
EncoderOut(name, d, T) ==
    CASE name = "none" ->
           [m_psi |-> Val([t \in 1..T |-> Val([i \in 1..d |-> NOne])]),
            r_psi_sqrt |-> Val([t \in 1..T |-> ZeroMat(d)])]
      [] name = "sparse" ->
           [m_psi |-> Val([t \in 1..T |-> Val([i \in 1..d |-> NInt(i)])]),
            r_psi_sqrt |-> Val([t \in 1..T |-> IF t % 2 = 1 THEN FirstCol(d) ELSE ZeroMat(d)])]
      [] name = "dense" ->
           [m_psi |-> Val([t \in 1..T |-> Val([i \in 1..d |-> IF i = 1 THEN NInt(t) ELSE NInt(-1)])]),
            r_psi_sqrt |-> Val([t \in 1..T |->
                               IF t % 2 = 1 THEN Eye(d) ELSE MatAdd(Eye(d), UpperShift(d))])]

\* the data set: MaxBatch + 1 sequences, the k-th of the kind DataNames[k]
\* (cyclically); a feed is a batch of 1..MaxBatch consecutive sequences of it
DataSet == Val([k \in 1..(MaxBatch + 1) |-> DataNames[((k - 1) % Len(DataNames)) + 1]])
Feeds ==
    {SubSeq(DataSet, k[1], k[2]) :
        k \in {k \in (1..Len(DataSet)) \X (1..Len(DataSet)) : k[1] <= k[2] /\ k[2] - k[1] < MaxBatch}}
m_psi_of(feed) == Val([b \in BatchOf(feed) |-> EncoderOut(feed[b], dim_latent, num_time_pts).m_psi])
r_psi_sqrt_of(feed) ==
    Val([b \in BatchOf(feed) |-> EncoderOut(feed[b], dim_latent, num_time_pts).r_psi_sqrt])

\* outcomes of tf.random_normal for samples_z, shape [batch, num_time_pts, d]
NoiseNames == {"u", "v"}
NoiseValue(name, b, t, i) ==
    IF name = "u" THEN (IF (b + t + i) % 2 = 1 THEN 1 ELSE 0)
    ELSE (IF i = 1 THEN -1 ELSE t)
NoiseOut(name, n) ==
    Val([b \in 1..n |-> Val([t \in Times |-> Val([i \in 1..dim_latent |-> NInt(NoiseValue(name, b, t, i))])])])

\* ------------------------------------------------------------------------
\* Operations
\* ------------------------------------------------------------------------
Unset == "unset"
NoRun == [op |-> "none"]
\* no generative model object
NoModel == [phase |-> "none"]

\* a dictionary of initial values a caller may leave in the attribute
\* gen_params of the object before build_graph is called
SuppliedParams(d) ==
    {[A |-> Eye(d)],
     [z0_mean |-> <<Val([i \in 1..d |-> NOne])>>, Q0_sqrt |-> MatScale(<<2, 1>>, Eye(d))]}
EmptyParams == <<>>

\* SmoothingLDS.__init__: the dimensions are stored as given, zero included,
\* nothing else happens.  (An object with dim_latent = 0 is taken with
\* num_time_pts <= 1 only: with more time points its graph is built, and what
\* a run of it returns depends on how the TensorFlow build reshapes an empty
\* tensor.)
Init ==
    /\ phase = "new"
    /\ dim_latent \in 0..MaxLatents
    /\ num_time_pts \in 0..MaxLatents
    /\ dim_latent * num_time_pts <= MaxLatents
    /\ dim_latent = 0 => num_time_pts <= 1
    /\ z0_mean = Unset
    /\ A = Unset
    /\ Q_sqrt = Unset
    /\ Q0_sqrt = Unset
    /\ run = NoRun
    /\ again = FALSE
    /\ apart = FALSE
    /\ gen_params = EmptyParams
    /\ gen = NoModel
    /\ pair = NoModel
    /\ mf = NoModel

\* the caller leaves a dictionary in gen_params before the graph is built
SupplyParams ==
    /\ phase = "new"
    /\ UNCHANGED other_objects
    /\ DOMAIN gen_params = {}
    /\ gen_params' \in SuppliedParams(dim_latent)
    /\ UNCHANGED <<phase, dim_latent, num_time_pts, z0_mean, A, Q_sqrt, Q0_sqrt, run, again,
                   apart>>

\* the initializer of a variable: the entry of the dictionary when it has
\* one, the default otherwise
InitialValue(params, name, d) ==
    IF name \in DOMAIN params THEN params[name] ELSE DefaultValues(d)[name]

\* SmoothingLDS.build_graph: _initialize_model_vars first sets gen_params to
\* the empty dictionary, then creates each variable from it, then the graph
\* is assembled; tf.tile rejects the multiple num_time_pts - 2 when it is
\* negative
BuildGraph ==
    /\ phase = "new"
    /\ UNCHANGED other_objects
    /\ gen_params' = EmptyParams
    /\ z0_mean' = InitialValue(gen_params', "z0_mean", dim_latent)
    /\ A' = InitialValue(gen_params', "A", dim_latent)
    /\ Q_sqrt' = InitialValue(gen_params', "Q_sqrt", dim_latent)
    /\ Q0_sqrt' = InitialValue(gen_params', "Q0_sqrt", dim_latent)
    /\ phase' = IF TileOK(num_time_pts - 2) THEN "built" ELSE "error"
    /\ UNCHANGED <<dim_latent, num_time_pts, run, again, apart>>

\* a step of the external optimizer writes the trainable variables
TrainStep ==
    /\ phase = "built"
    /\ UNCHANGED other_objects
    /\ \E v \in TrainedValues(dim_latent) :
          /\ v # [z0_mean |-> z0_mean, A |-> A, Q_sqrt |-> Q_sqrt, Q0_sqrt |-> Q0_sqrt]
          /\ z0_mean' = v.z0_mean
          /\ A' = v.A
          /\ Q_sqrt' = v.Q_sqrt
          /\ Q0_sqrt' = v.Q0_sqrt
    /\ run' = NoRun
    /\ again' = FALSE
    /\ apart' = FALSE
    /\ UNCHANGED <<phase, dim_latent, num_time_pts, gen_params>>

\* faulty variant: the off-diagonal blocks kept from the time the graph was
\* built (A = 0.5 I, Q0inv = Qinv = I), not taken from the current variables
Forward_BuildTimeBlocks(feed) ==
    LET m == m_psi_of(feed)
        r == r_psi_sqrt_of(feed)
        c == c_psi_inv(r)
        Sd == Sinv_diag(c)
        chol == chol_decomp_Sinv(Sd)
    IN  [feed |-> feed, m_psi |-> m, r_psi_sqrt |-> r, c_psi_inv |-> c,
         Sinv_diag |-> Sd,
         Sinv_ldiag0 |-> Tile(MatNeg(DefaultValues(dim_latent).A), num_time_pts - 1),
         chol_decomp_Sinv |-> chol,
         ok |-> \A b \in BatchOf(feed) : chol[b].ok]
\* the tensors every fetch of the posterior depends on
Forward(feed) ==
    LET m == m_psi_of(feed)
        r == r_psi_sqrt_of(feed)
        c == c_psi_inv(r)
        Sd == Sinv_diag(c)
        chol == chol_decomp_Sinv(Sd)
    IN  [feed |-> feed, m_psi |-> m, r_psi_sqrt |-> r, c_psi_inv |-> c,
         Sinv_diag |-> Sd, Sinv_ldiag0 |-> Sinv_ldiag0, chol_decomp_Sinv |-> chol,
         ok |-> \A b \in BatchOf(feed) : chol[b].ok]

\* faulty variant: the failure is swallowed and zeros are returned as the mean
Failed_Swallowed(name, f) ==
    [op |-> name, status |-> "ok", fwd |-> f,
     post_z_means |-> Val([b \in BatchOf(f.feed) |-> Val([t \in Times |-> ZeroVec(dim_latent)])])]
\* the factorization of some batch element failed: sess.run raises
Failed(name, f) == [op |-> name, status |-> "InvalidArgumentError", fwd |-> f]

\* the tensors post_z_means depends on, given the tensors f of Forward
MeansRun(name, f) ==
    LET iav == ia(f.c_psi_inv, f.m_psi)
    IN  IF ~f.ok THEN Failed(name, f)
        ELSE [op |-> name, status |-> "ok", fwd |-> f, ia |-> iav,
              post_z_means |-> post_z_means(f.chol_decomp_Sinv, iav)]

\* SmoothingLDS.get_posterior_means(sess, observations)
GetPosteriorMeans ==
    /\ phase = "built"
    /\ UNCHANGED other_objects
    /\ \E feed \in Feeds :
          \E f \in {Forward(feed)} : run' = MeansRun("get_posterior_means", f)
    /\ again' = FALSE
    /\ apart' = FALSE
    /\ UNCHANGED <<phase, dim_latent, num_time_pts, z0_mean, A, Q_sqrt, Q0_sqrt, gen_params>>

\* faulty variant: the noise of the call before is used again when there is one of
\* the same shape
SamplesRun_StaleNoise(mr, samples_z) ==
    LET stale == /\ mr.status = "ok"
                 /\ run.op = "generate_samples"
                 /\ run.status = "ok"
                 /\ Len(run.samples_z) = Len(samples_z)
        used == IF stale THEN run.samples_z ELSE samples_z
    IN  IF mr.status # "ok" THEN mr
        ELSE [op |-> mr.op, status |-> "ok", fwd |-> mr.fwd, ia |-> mr.ia,
              post_z_means |-> mr.post_z_means, samples_z |-> samples_z,
              post_z_samples |->
                  post_z_samples(mr.fwd.chol_decomp_Sinv, mr.post_z_means, used)]
\* post_z_samples, given the tensors mr of MeansRun and the drawn samples_z
SamplesRun(mr, samples_z) ==
    IF mr.status # "ok" THEN mr
    ELSE [op |-> mr.op, status |-> "ok", fwd |-> mr.fwd, ia |-> mr.ia,
          post_z_means |-> mr.post_z_means, samples_z |-> samples_z,
          post_z_samples |->
              post_z_samples(mr.fwd.chol_decomp_Sinv, mr.post_z_means, samples_z)]

\* SmoothingLDS.generate_samples(sess, observations): samples_z is drawn by
\* tf.random_normal inside the graph at every run
GenerateSamples ==
    /\ phase = "built"
    /\ UNCHANGED other_objects
    /\ \E feed \in Feeds :
          \E f \in {Forward(feed)} :
             \E mr \in {MeansRun("generate_samples", f)} :
                \E noise \in NoiseNames :
                   run' = SamplesRun(mr, NoiseOut(noise, Len(feed)))
    /\ again' = (run.op = "generate_samples" /\ run.status = "ok"
                    /\ run'.fwd = run.fwd /\ run'.samples_z = run.samples_z)
    /\ apart' = (/\ run.op = "generate_samples"
                 /\ run.status = "ok"
                 /\ run'.status = "ok"
                 /\ run'.fwd.feed # run.fwd.feed
                 /\ \E b \in BatchOf(run.fwd.feed), c \in BatchOf(run'.fwd.feed) :
                       /\ run'.fwd.m_psi[c] = run.fwd.m_psi[b]
                       /\ run'.fwd.c_psi_inv[c] = run.fwd.c_psi_inv[b]
                       /\ run'.samples_z[c] = run.samples_z[b])
    /\ UNCHANGED <<phase, dim_latent, num_time_pts, z0_mean, A, Q_sqrt, Q0_sqrt, gen_params>>

\* the tensor returned by SmoothingLDS.evaluate_entropy(), given the tensors
\* f of Forward
EntropyRun(f) ==
    IF ~f.ok THEN Failed("evaluate_entropy", f)
    ELSE [op |-> "evaluate_entropy", status |-> "ok", fwd |-> f,
          entropy |-> evaluate_entropy(f.chol_decomp_Sinv)]

\* a run that fetches the tensor returned by SmoothingLDS.evaluate_entropy()
EvaluateEntropy ==
    /\ phase = "built"
    /\ UNCHANGED other_objects
    /\ \E feed \in Feeds : \E f \in {Forward(feed)} : run' = EntropyRun(f)
    /\ again' = FALSE
    /\ apart' = FALSE
    /\ UNCHANGED <<phase, dim_latent, num_time_pts, z0_mean, A, Q_sqrt, Q0_sqrt, gen_params>>

\* SmoothingLDS.get_params(sess)
param_dict ==
    [A |-> A, z0_mean |-> z0_mean, Q |-> Q, Q0 |-> Q0, Q_sqrt |-> Q_sqrt, Q0_sqrt |-> Q0_sqrt]

\* faulty variant: the call puts A back to its initial value
GetParams_ResetsA ==
    /\ phase = "built"
    /\ UNCHANGED other_objects
    /\ run' = [op |-> "get_params", status |-> "ok", ret |-> param_dict]
    /\ again' = FALSE
    /\ apart' = FALSE
    /\ A' = DefaultValues(dim_latent).A
    /\ UNCHANGED <<phase, dim_latent, num_time_pts, z0_mean, Q_sqrt, Q0_sqrt, gen_params>>
GetParams ==
    /\ phase = "built"
    /\ UNCHANGED other_objects
    /\ run' = [op |-> "get_params", status |-> "ok", ret |-> param_dict]
    /\ again' = FALSE
    /\ apart' = FALSE
    /\ UNCHANGED <<phase, dim_latent, num_time_pts, z0_mean, A, Q_sqrt, Q0_sqrt, gen_params>>

\* ------------------------------------------------------------------------
\* Runs of the graph by the caller's own session call, with a feed_dict that
\* supplies the data term: sess.run(fetch, {input_ph: observations,
\* c_psi_inv: value}).  Every tensor of a TensorFlow 1 graph can be fed; the
\* fed value replaces what the encoder would give, and it is taken only if
\* its shape is compatible with the static shape of the tensor.
\* ------------------------------------------------------------------------
Fetches == {"post_z_means", "post_z_samples", "evaluate_entropy"}
\* data terms a caller may supply for one sequence
FedTerms == {"sound", "late", "wrong_T", "wrong_d"}
FedBlocks(term, d, T) ==
    CASE term = "sound" -> Val([t \in 1..T |-> Eye(d)])
      [] term = "late" ->
           Val([t \in 1..T |-> IF t = T THEN MatScale(<<-16, 1>>, Eye(d)) ELSE ZeroMat(d)])
      [] term = "wrong_T" -> Val([t \in 1..(T + 1) |-> Eye(d)])
      [] term = "wrong_d" -> Val([t \in 1..T |-> Eye(d + 1)])
FedValue(term, n) == Val([b \in 1..n |-> FedBlocks(term, dim_latent, num_time_pts)])
\* observations are fed one sequence at a time
FedFeeds == {feed \in Feeds : Len(feed) = 1}

\* faulty variant: the length of the block sequence is not looked at
FeedCompatible_AnyLength(value) ==
    \A b \in DOMAIN value : \A t \in DOMAIN value[b] :
        /\ Len(value[b][t]) = dim_latent
        /\ \A i \in DOMAIN value[b][t] : Len(value[b][t][i]) = dim_latent
\* c_psi_inv has the static shape [?, num_time_pts, dim_latent, dim_latent],
\* from the reshape of r_psi_sqrt and the matmul
FeedCompatible(value) ==
    \A b \in DOMAIN value :
        /\ Len(value[b]) = num_time_pts
        /\ \A t \in DOMAIN value[b] :
              /\ Len(value[b][t]) = dim_latent
              /\ \A i \in DOMAIN value[b][t] : Len(value[b][t][i]) = dim_latent

\* the tensors every fetch of the posterior depends on when c_psi_inv is fed:
\* r_psi_sqrt is not evaluated
ForwardFed(feed, value) ==
    LET m == m_psi_of(feed)
        Sd == Sinv_diag(value)
        chol == chol_decomp_Sinv(Sd)
    IN  [feed |-> feed, m_psi |-> m, r_psi_sqrt |-> Unset, c_psi_inv |-> value,
         Sinv_diag |-> Sd, Sinv_ldiag0 |-> Sinv_ldiag0, chol_decomp_Sinv |-> chol,
         ok |-> \A b \in BatchOf(feed) : chol[b].ok]

\* a run and the value that was fed to it
WithFed(rec, value) ==
    Val([k \in (DOMAIN rec) \cup {"fed"} |-> IF k = "fed" THEN value ELSE rec[k]])

RunFed ==
    /\ phase = "built"
    /\ UNCHANGED other_objects
    /\ \E feed \in FedFeeds, term \in FedTerms :
          \E value \in {FedValue(term, Len(feed))} :
             IF ~FeedCompatible(value)
             THEN \E fetch \in Fetches :
                     run' = [op |-> fetch, status |-> "ValueError", fed |-> value]
             ELSE \E f \in {ForwardFed(feed, value)} :
                     \/ run' = WithFed(EntropyRun(f), value)
                     \/ \E mr \in {MeansRun("post_z_means", f)} :
                           run' = WithFed(mr, value)
                     \/ \E mr \in {MeansRun("post_z_samples", f)} :
                           \E noise \in NoiseNames :
                              run' = WithFed(SamplesRun(mr, NoiseOut(noise, Len(feed))), value)
    /\ again' = FALSE
    /\ apart' = FALSE
    /\ UNCHANGED <<phase, dim_latent, num_time_pts, z0_mean, A, Q_sqrt, Q0_sqrt, gen_params>>

Next ==
    \/ SupplyParams
    \/ BuildGraph
    \/ TrainStep
    \/ GetPosteriorMeans
    \/ GenerateSamples
    \/ EvaluateEntropy
    \/ GetParams

Spec == Init /\ [][Next]_vars

\* the object under a caller that supplies the data term itself
NextFed ==
    \/ BuildGraph
    \/ TrainStep
    \/ RunFed

SpecFed == Init /\ [][NextFed]_vars

\* ------------------------------------------------------------------------
\* The generative models (generative.py): LDS and the classes derived from
\* it.  A class takes each method from the first class of its resolution
\* order that defines it.
\* ------------------------------------------------------------------------
GenClasses == {"LDS", "PLDS", "FLDS", "PFLDS"}
\* the class whose __init__ runs
InitOf(cls) ==
    CASE cls \in {"LDS", "FLDS", "LDSCoupled", "FLDSCoupled"} -> "LDS"
      [] cls \in {"PLDS", "PFLDS", "PLDSCoupled", "PFLDSCoupled"} -> "PLDS"
\* the class whose _initialize_mapping runs
MappingOf(cls) ==
    CASE cls \in {"LDS", "LDSCoupled", "FLDSCoupled"} -> "LDS"
      [] cls \in {"PLDS", "PFLDS", "PLDSCoupled", "PFLDSCoupled"} -> "PLDS"
      [] cls = "FLDS" -> "FLDS"
\* the class whose _sample_yz and get_params run
SamplerOf(cls) ==
    CASE cls \in {"LDS", "FLDS", "LDSCoupled", "FLDSCoupled"} -> "LDS"
      [] cls \in {"PLDS", "PFLDS", "PLDSCoupled", "PFLDSCoupled"} -> "PLDS"

\* the factor of diag = 1e-6 * np.eye(dim_latent)
Jitter == Rat(1, 1000000)
\* self.Q (and self.Q0) of LDS.initialize_prior_vars: sqrt sqrt^T + diag
LDS_Q(sqrt) ==
    MatAdd(MatMul(sqrt, Transpose(sqrt)), MatScale(Jitter, Eye(Rows(sqrt))))
\* tf.matrix_inverse of Q or Q0: M^-1 = (M / 1e-6)^-1 / 1e-6, the adjugate and
\* the determinant taken of M / 1e-6, whose entries are small
LDS_matrix_inverse(M) ==
    MatScale(RInv(Jitter), matrix_inverse(MatScale(RInv(Jitter), M)))

\* the initializers LDS.initialize_prior_vars uses when gen_params has no entry
LDS_DefaultValues(d) ==
    [z0_mean |-> <<ZeroVec(d)>>, A |-> MatScale(Rat(1, 2), Eye(d)),
     Q_sqrt |-> MatScale(Rat(1, 10), Eye(d)), Q0_sqrt |-> MatScale(Rat(1, 10), Eye(d))]
\* outcomes of the truncated-normal initializers of C, d and Rsqrt
InitDraws == {"a", "b"}
MappingDraw(draw, dl, do) ==
    [C |-> Val([i \in 1..dl |-> Val([j \in 1..do |->
                 IF draw = "a" THEN NInt(i + j - 2) ELSE NInt(i - 2 * j)])]),
     d |-> <<Val([j \in 1..do |-> IF draw = "a" THEN NInt(j) ELSE NZero])>>,
     Rsqrt |-> <<Val([j \in 1..do |-> IF draw = "a" THEN NFrac(1, 2) ELSE NInt((j % 2) - 2)])>>]

\* LDS.initialize_prior_vars: the four variables, each from gen_params when it
\* has the entry
LDS_initialize_prior_vars(params, d) ==
    LET v(name) == IF name \in DOMAIN params THEN params[name] ELSE LDS_DefaultValues(d)[name]
    IN  [z0_mean |-> v("z0_mean"), A |-> v("A"), Q_sqrt |-> v("Q_sqrt"), Q0_sqrt |-> v("Q0_sqrt")]

\* _initialize_mapping of LDS: Rsqrt, C and d, each from gen_params when it has
\* the entry
LDS_initialize_mapping(params, draw, dl, do) ==
    LET v(name) == IF name \in DOMAIN params THEN params[name] ELSE MappingDraw(draw, dl, do)[name]
    IN  [Rsqrt |-> v("Rsqrt"), C |-> v("C"), d |-> v("d")]
\* _initialize_mapping of PLDS: C and d
PLDS_initialize_mapping(params, draw, dl, do) ==
    LET v(name) == IF name \in DOMAIN params THEN params[name] ELSE MappingDraw(draw, dl, do)[name]
    IN  [C |-> v("C"), d |-> v("d")]
\* _initialize_mapping of FLDS: Rsqrt only
FLDS_initialize_mapping(params, draw, dl, do) ==
    LET v(name) == IF name \in DOMAIN params THEN params[name] ELSE MappingDraw(draw, dl, do)[name]
    IN  [Rsqrt |-> v("Rsqrt")]
initialize_mapping(cls, params, draw, dl, do) ==
    CASE MappingOf(cls) = "LDS" -> LDS_initialize_mapping(params, draw, dl, do)
      [] MappingOf(cls) = "PLDS" -> PLDS_initialize_mapping(params, draw, dl, do)
      [] MappingOf(cls) = "FLDS" -> FLDS_initialize_mapping(params, draw, dl, do)

\* the attributes _apply_mapping reads
ApplyMappingReads == {"C", "d"}
\* the attributes _sample_yz reads while it defines the sampling branch
SampleReads(cls) ==
    IF SamplerOf(cls) = "LDS"
    THEN {"A", "Q_sqrt", "Rsqrt", "z0_mean", "Q0_sqrt"} \cup ApplyMappingReads
    ELSE {"A", "Q_sqrt", "z0_mean", "Q0_sqrt"} \cup ApplyMappingReads

\* values of the seven variables of a model: what a caller may supply in
\* gen_params and what the optimizer may leave
GenValueNames == {"s", "t"}
GenValues(name, dl, do) ==
    IF name = "s"
    THEN [z0_mean |-> <<Val([i \in 1..dl |-> NOne])>>,
          A |-> MatAdd(Eye(dl), UpperShift(dl)),
          Q_sqrt |-> MatScale(Rat(1, 1000), MatAdd(Eye(dl), Transpose(UpperShift(dl)))),
          Q0_sqrt |-> MatScale(Rat(3, 1000), Eye(dl)),
          C |-> Val([i \in 1..dl |-> Val([j \in 1..do |-> NInt(j)])]),
          d |-> <<Val([j \in 1..do |-> NInt(-1)])>>,
          Rsqrt |-> <<Val([j \in 1..do |-> NInt(2)])>>]
    ELSE [z0_mean |-> <<Val([i \in 1..dl |-> NInt(i)])>>,
          A |-> MatAdd(MatScale(<<2, 1>>, Eye(dl)), Transpose(UpperShift(dl))),
          Q_sqrt |-> MatScale(Rat(7, 1000), Eye(dl)),
          Q0_sqrt |-> MatScale(Rat(2, 1000), Eye(dl)),
          C |-> Val([i \in 1..dl |-> Val([j \in 1..do |-> NInt(i - j)])]),
          d |-> <<Val([j \in 1..do |-> NZero])>>,
          Rsqrt |-> <<Val([j \in 1..do |-> NFrac(1, 2)])>>]
\* the part of the record r under the names S
Restrict(r, S) == Val([k \in S \cap DOMAIN r |-> r[k]])

\* the argument spiking_nl of PLDS.__init__: its value, and whether it is the
\* very string object of the literal in the source (a string that was built
\* or read at run time is equal to the literal without being that object)
SpikingArgs ==
    {[value |-> v, literal |-> l] :
        v \in {"softplus", "exponential", "relu", "sigmoid"}, l \in BOOLEAN}
        \ {[value |-> "sigmoid", literal |-> TRUE]}
NoSpiking == [value |-> "none", literal |-> FALSE]
\* PLDS.__init__: the tests are "spiking_nl is 'softplus'" and so on, which
\* compare the objects, not the values
PLDS_spiking_nl(arg) ==
    CASE arg.value = "softplus" /\ arg.literal -> "tf.nn.softplus"
      [] arg.value = "exponential" /\ arg.literal -> "tf.exp"
      [] arg.value = "relu" /\ arg.literal -> "tf.nn.relu"
      [] OTHER -> "ValueError"

\* the object after __init__
Constructed(cls, do, dl, T, params, arg) ==
    LET nl == IF InitOf(cls) = "PLDS" THEN PLDS_spiking_nl(arg) ELSE "none"
    IN  [cls |-> cls, phase |-> IF nl = "ValueError" THEN "error" ELSE "new",
         error |-> IF nl = "ValueError" THEN "ValueError" ELSE "none",
         dim_obs |-> do, dim_latent |-> dl, num_time_pts |-> T,
         gen_params |-> params, arg |-> arg, spiking_nl |-> nl,
         attrs |-> EmptyParams, run |-> NoRun, orig |-> EmptyParams]

SmoothingIdle == UNCHANGED <<phase, dim_latent, num_time_pts, z0_mean, A, Q_sqrt, Q0_sqrt,
                             run, again, apart, gen_params>>

\* LDS(...), PLDS(...), FLDS(...), PFLDS(...): gen_params is None or a dictionary
GenConstruct ==
    /\ gen.phase = "none"
    /\ \E cls \in GenClasses, do \in 1..MaxBatch, dl \in 1..(MaxLatents \div 2),
          T \in 1..(MaxLatents - 1), supplied \in {"none"} \cup GenValueNames :
          \E arg \in (IF InitOf(cls) = "PLDS" THEN SpikingArgs ELSE {NoSpiking}) :
             \E params \in {IF supplied = "none" THEN EmptyParams
                            ELSE GenValues(supplied, dl, do)} :
                gen' = Constructed(cls, do, dl, T, params, arg)
    /\ SmoothingIdle
    /\ UNCHANGED <<pair, mf>>

\* LDS.build_graph: initialize_prior_vars, _initialize_mapping, then
\* _apply_mapping and _sample_yz, which read attributes of the object
GenBuildGraph ==
    /\ gen.phase = "new"
    /\ \E draw \in InitDraws :
          \E prior \in {LDS_initialize_prior_vars(gen.gen_params, gen.dim_latent)} :
             \E mapping \in {initialize_mapping(gen.cls, gen.gen_params, draw,
                                                gen.dim_latent, gen.dim_obs)} :
                LET attrs == mapping @@ prior
                    reads == ApplyMappingReads \cup SampleReads(gen.cls)
                IN  gen' = IF reads \subseteq DOMAIN attrs
                           THEN [gen EXCEPT !.phase = "built", !.attrs = attrs]
                           ELSE [gen EXCEPT !.phase = "error", !.error = "AttributeError",
                                            !.attrs = attrs]
    /\ SmoothingIdle
    /\ UNCHANGED <<pair, mf>>

\* a step of the external optimizer writes the trainable variables
GenTrainStep ==
    /\ gen.phase = "built"
    /\ \E name \in GenValueNames :
          \E v \in {Restrict(GenValues(name, gen.dim_latent, gen.dim_obs), DOMAIN gen.attrs)} :
             /\ v # gen.attrs
             /\ gen' = [gen EXCEPT !.attrs = v, !.run = NoRun]
    /\ SmoothingIdle
    /\ UNCHANGED <<pair, mf>>

\* tf.square of a row
Square(row) == <<Val([j \in 1..Len(row[1]) |-> NMul(row[1][j], row[1][j])])>>
\* LDS.get_params
LDS_get_params(attrs) ==
    [A |-> attrs.A, C |-> attrs.C, d |-> attrs.d, R |-> Square(attrs.Rsqrt),
     z0_mean |-> attrs.z0_mean, Q |-> LDS_Q(attrs.Q_sqrt), Q0 |-> LDS_Q(attrs.Q0_sqrt)]
\* PLDS.get_params
PLDS_get_params(attrs) ==
    [A |-> attrs.A, C |-> attrs.C, d |-> attrs.d,
     z0_mean |-> attrs.z0_mean, Q |-> LDS_Q(attrs.Q_sqrt), Q0 |-> LDS_Q(attrs.Q0_sqrt)]
GenGetParams ==
    /\ gen.phase = "built"
    /\ \E ret \in {IF SamplerOf(gen.cls) = "LDS" THEN LDS_get_params(gen.attrs)
                   ELSE PLDS_get_params(gen.attrs)} :
          gen' = [gen EXCEPT !.run = [op |-> "get_params", ret |-> ret]]
    /\ SmoothingIdle
    /\ UNCHANGED <<pair, mf>>

\* outcomes of tf.random_normal for latent_rand_samples [n, T, dim_latent]
\* and obs_rand_samples [n, T, dim_obs]
SampleNoise(name, n, T, dl, do) ==
    [latent |-> Val([b \in 1..n |-> Val([t \in 1..T |-> Val([i \in 1..dl |->
                    IF name = "u" THEN NInt(t + i - b) ELSE NInt(b * t - 2 * i)])])]),
     obs |-> Val([b \in 1..n |-> Val([t \in 1..T |-> Val([j \in 1..do |->
                    IF name = "u" THEN NInt(b - t) ELSE NInt(j + t)])])])]
\* the slice x[:, t, :]
Slice(x, t) == Val([b \in DOMAIN x |-> x[b][t]])
\* LDS._apply_mapping on the latents z [n, dim_latent]: z C + d
LDS_apply_mapping(attrs, z) ==
    LET zc == MatMul(z, attrs.C)
    IN  Val([b \in 1..Rows(z) |-> VecAdd(zc[b], attrs.d[1])])
\* tf.multiply(rand_y, self.Rsqrt)
ObsNoise(rand_y, Rsqrt) ==
    Val([b \in DOMAIN rand_y |->
           Val([j \in DOMAIN rand_y[b] |-> NMul(rand_y[b][j], Rsqrt[1][j])])])
\* lds_update of LDS._sample_yz
lds_update(attrs, z_val, rand_z, rand_y) ==
    LET z == MatAdd(MatMul(z_val, Transpose(attrs.A)),
                    MatMul(rand_z, Transpose(attrs.Q_sqrt)))
    IN  [z |-> z, y |-> MatAdd(LDS_apply_mapping(attrs, z), ObsNoise(rand_y, attrs.Rsqrt))]
\* tf.scan of lds_update over the noise of the time points 2..T, from the
\* initializer init; acc holds the outputs so far
RECURSIVE lds_scan(_, _, _, _)
lds_scan(attrs, noise, init, acc) ==
    IF Len(acc) >= Len(noise.latent[1]) - 1 THEN acc
    ELSE LET carry == IF Len(acc) = 0 THEN init ELSE acc[Len(acc)]
             k == Len(acc) + 2
         IN  lds_scan(attrs, noise, init,
                      Append(acc, lds_update(attrs, carry.z, Slice(noise.latent, k),
                                             Slice(noise.obs, k))))
\* z_samples_prior and y_samples_prior of LDS._sample_yz, [n, T, .]
LDS_sample_yz(attrs, noise) ==
    LET n == Len(noise.latent)
        z0 == Val([b \in 1..n |->
                     VecAdd(attrs.z0_mean[1],
                            MatMul(Slice(noise.latent, 1), Transpose(attrs.Q0_sqrt))[b])])
        y0 == MatAdd(LDS_apply_mapping(attrs, z0), ObsNoise(Slice(noise.obs, 1), attrs.Rsqrt))
        samples == lds_scan(attrs, noise, [z |-> z0, y |-> y0], <<>>)
        all == <<[z |-> z0, y |-> y0]>> \o samples
    IN  [z |-> Val([b \in 1..n |-> Val([t \in 1..Len(all) |-> all[t].z[b]])]),
         y |-> Val([b \in 1..n |-> Val([t \in 1..Len(all) |-> all[t].y[b]])])]

\* LDS.sample(sess, num_samples): a run of z_samples_prior and y_samples_prior.
\* With num_time_pts = 1 the scan has no element and its outputs are stacked
\* from TensorArrays of size zero whose element shape [?, dim] is not fully
\* defined; the TensorArray gather kernel rejects that at run time
\* (UnimplementedError), a kernel without that check gives the one-step
\* trajectory.
GenSample ==
    /\ gen.phase = "built"
    /\ SamplerOf(gen.cls) = "LDS"
    /\ \E n \in 1..MaxBatch, name \in NoiseNames :
          \E noise \in {SampleNoise(name, n, gen.num_time_pts, gen.dim_latent, gen.dim_obs)} :
             \E out \in {LDS_sample_yz(gen.attrs, noise)} :
                \/ gen' = [gen EXCEPT !.run = [op |-> "sample", status |-> "ok",
                                               noise |-> noise, z |-> out.z, y |-> out.y]]
                \/ /\ gen.num_time_pts = 1
                   /\ gen' = [gen EXCEPT !.run = [op |-> "sample",
                                                  status |-> "UnimplementedError",
                                                  noise |-> noise]]
    /\ SmoothingIdle
    /\ UNCHANGED <<pair, mf>>

\* the arguments of log_density and the observations fed with them:
\* z [B, M, T, dim_latent], y [B, M, T, dim_obs], obs_ph [B, T, dim_obs]
DensityInputs(B, M, T, dl, do) ==
    [z |-> Val([b \in 1..B |-> Val([m \in 1..M |-> Val([t \in 1..T |-> Val([i \in 1..dl |->
              NInt(((b + m + t * i) % 3) - 1)])])])]),
     y |-> Val([b \in 1..B |-> Val([m \in 1..M |-> Val([t \in 1..T |-> Val([j \in 1..do |->
              NInt((b * m + t + j) % 2)])])])]),
     obs |-> Val([b \in 1..B |-> Val([t \in 1..T |-> Val([j \in 1..do |->
              NInt(b - t)])])])]
\* tf.reduce_mean over the batch and the Monte Carlo axes (0 and 1) of the
\* tensor x [B, M, n, dim], then tf.reduce_sum of the [n, dim] means
MeanThenSum(x, n, dim) ==
    LET B == Len(x)
        M == Len(x[1])
        mean(t, i) ==
            NScale(Rat(1, B * M),
                   NSum(Val([k \in 1..(B * M) |->
                               x[((k - 1) \div M) + 1][((k - 1) % M) + 1][t][i]]), B * M))
    IN  NSum(Val([k \in 1..(n * dim) |-> mean(((k - 1) \div dim) + 1, ((k - 1) % dim) + 1)]),
             n * dim)
\* the row vector v times the matrix X: tf.tensordot(v, X, axes=[[last], [0]])
RowMat(v, X) == MatMul(<<v>>, X)[1]
\* tf.multiply of two vectors
VecMul(u, v) == Val([i \in DOMAIN u |-> NMul(u[i], v[i])])
\* c * log(x) as a formal term: the coefficient c at the argument x
LogTerm(x, c) == IF c[1] = 0 THEN Val([a \in {} |-> c]) ELSE Val([a \in {x} |-> c])
\* the sum of two formal combinations of logarithms
LogSum(f, g) ==
    LET c(a) == RAdd(IF a \in DOMAIN f THEN f[a] ELSE RZero,
                     IF a \in DOMAIN g THEN g[a] ELSE RZero)
    IN  Val([a \in {a \in DOMAIN f \cup DOMAIN g : c(a)[1] # 0} |-> c(a)])
\* the sum of the terms c * log(row[j]), j in 1..n
RECURSIVE LogRow(_, _, _)
LogRow(row, c, n) ==
    IF n = 0 THEN LogTerm(NOne, RZero) ELSE LogSum(LogRow(row, c, n - 1), LogTerm(row[n], c))
\* a log density: a number, plus rational multiples of log det of matrices,
\* of logs of numbers and of log(2 pi)
DensitySum(p, q) ==
    [quad |-> NAdd(p.quad, q.quad), logdet |-> LogSum(p.logdet, q.logdet),
     logs |-> LogSum(p.logs, q.logs), log2pi |-> RAdd(p.log2pi, q.log2pi)]

\* test_prior + test_prior0 of LDS._log_density_prior, the residuals of the
\* steps 2..T weighted by W and the residual of the first step by W0
PriorTests(attrs, z, T, W, W0) ==
    LET B == Len(z)
        M == Len(z[1])
        d == Rows(attrs.A)
        At == Transpose(attrs.A)
        res_z0 == Val([b \in 1..B |-> Val([m \in 1..M |->
                     <<VecSub(z[b][m][1], attrs.z0_mean[1])>>])])
        res_z == Val([b \in 1..B |-> Val([m \in 1..M |-> Val([t \in 1..(T - 1) |->
                    VecSub(z[b][m][t + 1], RowMat(z[b][m][t], At))])])])
        res_z_Qinv_res_z ==
            Val([b \in 1..B |-> Val([m \in 1..M |-> Val([t \in 1..(T - 1) |->
                    VecMul(RowMat(res_z[b][m][t], W), res_z[b][m][t])])])])
        res_z0_Q0inv_res_z0 ==
            Val([b \in 1..B |-> Val([m \in 1..M |->
                    <<VecMul(RowMat(res_z0[b][m][1], W0), res_z0[b][m][1])>>])])
        test_prior == MeanThenSum(res_z_Qinv_res_z, T - 1, d)
        test_prior0 == MeanThenSum(res_z0_Q0inv_res_z0, 1, d)
    IN  NAdd(test_prior, test_prior0)
\* the tensors LDS.initialize_prior_vars derives from the variables
LDS_prior_tensors(attrs) ==
    LET self_Q == LDS_Q(attrs.Q_sqrt)
        self_Q0 == LDS_Q(attrs.Q0_sqrt)
    IN  [Q |-> self_Q, Q0 |-> self_Q0,
         Qinv |-> LDS_matrix_inverse(self_Q), Q0inv |-> LDS_matrix_inverse(self_Q0)]
\* faulty variant: the first step scored as one more transition from z0_mean
LDS_log_density_prior_AllTransitions(attrs, self, z, T) ==
    [quad |-> NScale(Rat(-1, 2), PriorTests(attrs, z, T, self.Qinv, self.Qinv)),
     logdet |-> LogTerm(self.Q, Rat(-T, 2)),
     logs |-> LogTerm(NOne, RZero),
     log2pi |-> Rat(-(T * Rows(attrs.A)), 2)]
\* LDS._log_density_prior(z), self the tensors of LDS_prior_tensors
LDS_log_density_prior(attrs, self, z, T) ==
    [quad |-> NScale(Rat(-1, 2), PriorTests(attrs, z, T, self.Qinv, self.Q0inv)),
     logdet |-> LogSum(LogTerm(self.Q, Rat(-(T - 1), 2)), LogTerm(self.Q0, Rat(-1, 2))),
     logs |-> LogTerm(NOne, RZero),
     log2pi |-> Rat(-(T * Rows(attrs.A)), 2)]
\* LDS._log_density_likelihood(y), obs the value fed to obs_ph
LDS_log_density_likelihood(attrs, y, obs, T) ==
    LET B == Len(y)
        M == Len(y[1])
        do == Len(attrs.Rsqrt[1])
        R == Square(attrs.Rsqrt)[1]
        Rinv == Val([j \in 1..do |-> NInv(R[j])])
        res_y == Val([b \in 1..B |-> Val([m \in 1..M |-> Val([t \in 1..T |->
                    VecSub(obs[b][t], y[b][m][t])])])])
        res_y_Rinv_res_y ==
            Val([b \in 1..B |-> Val([m \in 1..M |-> Val([t \in 1..T |->
                    VecMul(VecMul(res_y[b][m][t], res_y[b][m][t]), Rinv)])])])
        test_like == MeanThenSum(res_y_Rinv_res_y, T, do)
    IN  [quad |-> NScale(Rat(-1, 2), test_like),
         logdet |-> LogTerm(NOne, RZero),
         logs |-> LogRow(R, Rat(-T, 2), do),
         log2pi |-> Rat(-(T * do), 2)]

\* LDS.log_density(y, z), evaluated with obs_ph fed
GenLogDensity ==
    /\ gen.phase = "built"
    /\ SamplerOf(gen.cls) = "LDS"
    /\ \E self \in {LDS_prior_tensors(gen.attrs)} :
          \E B \in 1..MaxBatch, M \in 1..2 :
             \E args \in {DensityInputs(B, M, gen.num_time_pts, gen.dim_latent, gen.dim_obs)} :
                \E lz \in {LDS_log_density_prior(gen.attrs, self, args.z, gen.num_time_pts)} :
                   \E ly \in {LDS_log_density_likelihood(gen.attrs, args.y, args.obs,
                                                         gen.num_time_pts)} :
                      gen' = [gen EXCEPT !.run = [op |-> "log_density", args |-> args,
                                                  self |-> self,
                                                  log_density_z |-> lz, log_density_y |-> ly,
                                                  ret |-> DensitySum(ly, lz)]]
    /\ SmoothingIdle
    /\ UNCHANGED <<pair, mf>>

\* a new model of the same class and dimensions constructed with the
\* dictionary of the latest get_params as gen_params; orig keeps the values
\* the first model held
GenReconstruct ==
    /\ gen.phase = "built"
    /\ gen.run.op = "get_params"
    /\ DOMAIN gen.orig = {}
    /\ gen' = [Constructed(gen.cls, gen.dim_obs, gen.dim_latent, gen.num_time_pts,
                           gen.run.ret, gen.arg) EXCEPT !.orig = gen.attrs]
    /\ SmoothingIdle
    /\ UNCHANGED <<pair, mf>>

\* the generative model under its callers; no SmoothingLDS object is used
InitGen ==
    /\ phase = "new"
    /\ dim_latent = 1
    /\ num_time_pts = 2
    /\ z0_mean = Unset
    /\ A = Unset
    /\ Q_sqrt = Unset
    /\ Q0_sqrt = Unset
    /\ run = NoRun
    /\ again = FALSE
    /\ apart = FALSE
    /\ gen_params = EmptyParams
    /\ gen = NoModel
    /\ pair = NoModel
    /\ mf = NoModel

NextGen ==
    \/ GenConstruct
    \/ GenBuildGraph
    \/ GenTrainStep
    \/ GenGetParams
    \/ GenSample
    \/ GenLogDensity
    \/ GenReconstruct

SpecGen == InitGen /\ [][NextGen]_vars

\* ------------------------------------------------------------------------
\* The coupled pair: an LDSCoupled and a SmoothingLDSCoupled (num_time_pts
\* at least 2) built by a caller from one call of
\* LDSCoupled.initialize_prior_vars.  Tensor objects are numbered; an
\* attribute holds the number of the object it refers to.
\* ------------------------------------------------------------------------
\* the local names in the return statement of LDSCoupled.initialize_prior_vars
CoupledReturn == <<"z0_mean", "A", "Q_sqrt", "Q", "Qinv", "Q0_sqrt", "Q0", "Q0inv">>
\* the parameters of LDSCoupled.build_graph after z_samples
LDSCoupled_build_graph == <<"z0_mean", "A", "Q_sqrt", "Q", "Qinv", "Q0_sqrt", "Q0", "Q0inv">>
\* faulty variant: Q and Qinv in the other order
SmoothingLDSCoupled_build_graph_Swapped ==
    <<"z0_mean", "A", "Q_sqrt", "Qinv", "Q", "Q0_sqrt", "Q0", "Q0inv">>
\* the parameters of SmoothingLDSCoupled.build_graph
SmoothingLDSCoupled_build_graph ==
    <<"z0_mean", "A", "Q_sqrt", "Q", "Qinv", "Q0_sqrt", "Q0", "Q0inv">>
\* the tf variables among the shared objects
CoupledVariables == {"z0_mean", "A", "Q_sqrt", "Q0_sqrt"}
\* the tensor objects the call of initialize_prior_vars creates, by number:
\* get_variable for the four variables, matmul and matrix_inverse for the rest
CoupledObjects(init) ==
    Val([k \in DOMAIN CoupledReturn |->
           IF CoupledReturn[k] \in CoupledVariables
           THEN [name |-> CoupledReturn[k], kind |-> "variable", value |-> init]
           ELSE [name |-> CoupledReturn[k], kind |-> "tensor", value |-> "derived"]])
\* the attributes a build_graph with the parameters params sets when it is
\* called with the tuple positionally: parameter k is bound to element k, and
\* self.<name> = <name> for each of the eight names
SharedAttrs(params, tuple) ==
    Val([n \in {params[k] : k \in DOMAIN params} |->
           tuple[CHOOSE k \in DOMAIN params : params[k] = n]])

\* the caller calls initialize_prior_vars of the LDSCoupled once and keeps
\* the tuple; gen_params is empty or supplies the variables
PairInitializePriorVars ==
    /\ pair.phase = "none"
    /\ \E init \in {"default", "supplied"} :
          pair' = [phase |-> "vars", objects |-> CoupledObjects(init),
                   tuple |-> Val([k \in DOMAIN CoupledReturn |-> k]),
                   gen |-> EmptyParams, inf |-> EmptyParams, last |-> NoRun]
    /\ SmoothingIdle
    /\ UNCHANGED <<gen, mf>>
\* LDSCoupled.build_graph(z_samples, *tuple)
PairBuildGenerative ==
    /\ pair.phase = "vars"
    /\ DOMAIN pair.gen = {}
    /\ pair' = [pair EXCEPT !.gen = SharedAttrs(LDSCoupled_build_graph, pair.tuple)]
    /\ SmoothingIdle
    /\ UNCHANGED <<gen, mf>>
\* SmoothingLDSCoupled.build_graph(*tuple)
PairBuildInference ==
    /\ pair.phase = "vars"
    /\ DOMAIN pair.inf = {}
    /\ pair' = [pair EXCEPT !.inf = SharedAttrs(SmoothingLDSCoupled_build_graph, pair.tuple)]
    /\ SmoothingIdle
    /\ UNCHANGED <<gen, mf>>
\* an assignment to a variable reached through an attribute of one of the two
\* objects (an optimizer step, or sess.run(obj.A.assign(value)))
PairAssign ==
    /\ pair.phase = "vars"
    /\ \E side \in {"gen", "inf"}, n \in CoupledVariables, v \in GenValueNames :
          /\ n \in DOMAIN pair[side]
          /\ pair' = [pair EXCEPT !.objects[pair[side][n]].value = v,
                                  !.last = [op |-> "assign", side |-> side, name |-> n,
                                            value |-> v]]
    /\ SmoothingIdle
    /\ UNCHANGED <<gen, mf>>

InitPair == InitGen
NextPair ==
    \/ PairInitializePriorVars
    \/ PairBuildGenerative
    \/ PairBuildInference
    \/ PairAssign
SpecPair == InitPair /\ [][NextPair]_vars

\* ------------------------------------------------------------------------
\* The inference networks as Python objects (num_time_pts at least 2): which
\* attributes build_graph leaves on the object and of what kind, and what
\* generate_samples and get_posterior_means read.  And the entropy of
\* MeanFieldGaussian as a function of the value of post_z_log_vars.
\* ------------------------------------------------------------------------
InferenceClasses == {"SmoothingLDS", "SmoothingLDSCoupled", "MeanFieldGaussian"}
InferenceMethods == {"generate_samples", "get_posterior_means"}
\* the attributes build_graph has set when it ends, of those the two methods
\* read, each with the kind of its value, and the exception it ends with.
\* MeanFieldGaussian.build_graph sets input_ph to the list [placeholder, None]
\* and then takes tf.shape of that list, which cannot be converted to a tensor
build_graph_result(cls) ==
    CASE cls = "SmoothingLDS" ->
           [attrs |-> [input_ph |-> "placeholder", post_z_means |-> "tensor",
                       post_z_samples |-> "tensor"],
            error |-> "none"]
      [] cls = "SmoothingLDSCoupled" ->
           [attrs |-> [input_ph |-> "placeholder", num_samples_ph |-> "placeholder",
                       post_z_means |-> "tensor", post_z_samples |-> "tensor"],
            error |-> "none"]
      [] cls = "MeanFieldGaussian" ->
           [attrs |-> [input_ph |-> "list"], error |-> "ValueError"]
\* the attributes a method reads, in the order Python evaluates them, and what
\* each is used as: the key of the feed_dict, a member of a set passed as
\* feed_dict, or the fetch
MethodReads(cls, method) ==
    IF cls = "MeanFieldGaussian"
    THEN IF method = "generate_samples"
         THEN <<[attr |-> "post_z_samples", use |-> "fetch"],
                [attr |-> "num_samples_ph", use |-> "set_member"]>>
         ELSE <<[attr |-> "input_ph", use |-> "feed_key"],
                [attr |-> "post_z_means", use |-> "fetch"]>>
    ELSE IF method = "generate_samples"
         THEN <<[attr |-> "input_ph", use |-> "feed_key"],
                [attr |-> "post_z_samples", use |-> "fetch"]>>
         ELSE <<[attr |-> "input_ph", use |-> "feed_key"],
                [attr |-> "post_z_means", use |-> "fetch"]>>
\* the exception a call ends with, "none" if it returns: a missing attribute
\* is an AttributeError, a list as a dictionary key is a TypeError, and
\* sess.run rejects a feed_dict that is a set with a TypeError
RECURSIVE CallOutcome(_, _, _)
CallOutcome(attrs, reads, k) ==
    IF k > Len(reads)
    THEN IF \E j \in DOMAIN reads : reads[j].use = "set_member" THEN "TypeError" ELSE "none"
    ELSE IF reads[k].attr \notin DOMAIN attrs THEN "AttributeError"
    ELSE IF reads[k].use = "feed_key" /\ attrs[reads[k].attr] = "list" THEN "TypeError"
    ELSE CallOutcome(attrs, reads, k + 1)

NetConstruct ==
    /\ mf.phase = "none"
    /\ \E cls \in InferenceClasses, di \in 1..MaxBatch, dl \in 1..(MaxLatents \div 2),
          T \in 2..(MaxLatents - 1) :
          mf' = [phase |-> "new", cls |-> cls, dim_input |-> di, dim_latent |-> dl,
                 num_time_pts |-> T, attrs |-> EmptyParams, error |-> "none", run |-> NoRun]
    /\ SmoothingIdle
    /\ UNCHANGED <<gen, pair>>
NetBuildGraph ==
    /\ mf.phase = "new"
    /\ \E r \in {build_graph_result(mf.cls)} :
          mf' = [mf EXCEPT !.phase = IF r.error = "none" THEN "built" ELSE "error",
                           !.attrs = r.attrs, !.error = r.error]
    /\ SmoothingIdle
    /\ UNCHANGED <<gen, pair>>
\* generate_samples or get_posterior_means called on the object after
\* build_graph was called
NetCall ==
    /\ mf.phase \in {"built", "error"}
    /\ \E method \in InferenceMethods :
          mf' = [mf EXCEPT !.run = [op |-> method,
                                    error |-> CallOutcome(mf.attrs, MethodReads(mf.cls, method), 1)]]
    /\ SmoothingIdle
    /\ UNCHANGED <<gen, pair>>

\* values of post_z_log_vars [B, T, dim_latent]
LogVarInputs(B, T, d) == [1..B -> [1..T -> [1..d -> {NInt(-1), NInt(2)}]]]
\* MeanFieldGaussian.evaluate_entropy: the number ln_det / 2.0, and the
\* coefficient of (1 + log(2 pi))
MF_evaluate_entropy(log_vars, d, T) ==
    LET ln_det == NScale(<<-2, 1>>,
                         MeanThenSum(Val([b \in DOMAIN log_vars |-> <<log_vars[b]>>]), T, d))
    IN  [lin |-> NScale(Rat(1, 2), ln_det), const |-> Rat(d * T, 2)]
ApplyEntropy ==
    /\ mf.phase = "log_vars"
    /\ mf.run.op = "none"
    /\ mf' = [mf EXCEPT !.run = [op |-> "evaluate_entropy",
                                 entropy |-> MF_evaluate_entropy(mf.post_z_log_vars,
                                                                 mf.dim_latent,
                                                                 mf.num_time_pts)]]
    /\ SmoothingIdle
    /\ UNCHANGED <<gen, pair>>

InitNets ==
    /\ phase = "new"
    /\ dim_latent = 1
    /\ num_time_pts = 2
    /\ z0_mean = Unset
    /\ A = Unset
    /\ Q_sqrt = Unset
    /\ Q0_sqrt = Unset
    /\ run = NoRun
    /\ again = FALSE
    /\ apart = FALSE
    /\ gen_params = EmptyParams
    /\ gen = NoModel
    /\ pair = NoModel
    /\ \/ mf = NoModel
       \/ \E B \in 1..MaxBatch, T \in 1..2, d \in 1..(MaxLatents \div 2) :
             \E lv \in LogVarInputs(B, T, d) :
                mf = [phase |-> "log_vars", dim_latent |-> d, num_time_pts |-> T,
                      post_z_log_vars |-> lv, run |-> NoRun]
NextNets ==
    \/ NetConstruct
    \/ NetBuildGraph
    \/ NetCall
    \/ ApplyEntropy
SpecNets == InitNets /\ [][NextNets]_vars

\* ------------------------------------------------------------------------
\* Properties of the precision assembler
\* ------------------------------------------------------------------------
\* the latest run evaluated the assembled precision
Assembled == phase = "built" /\ run.op \in {"get_posterior_means", "generate_samples", "evaluate_entropy"}
\* the batch of the latest run
Batch == BatchOf(run.fwd.feed)
\* the static part of an assembled diagonal block: the block less its data term
StaticPart(b, t) == MatSub(run.fwd.Sinv_diag[b][t], run.fwd.c_psi_inv[b][t])
\* a run with data in the last block and a nonzero A
LastBlockCase(T) ==
    /\ Assembled
    /\ num_time_pts = T
    /\ A # ZeroMat(dim_latent)
    /\ \E b \in Batch : run.fwd.c_psi_inv[b][T] # ZeroMat(dim_latent)

\* C1 (as the code has it): for T >= 2 the last diagonal block is
\* D_T = (A Q0inv A^T + Qinv) + c_psi_inv[T] when T = 2 and
\* D_T = (A Qinv A^T + Qinv) + c_psi_inv[T] when T >= 3: its static part
\* always carries an A-dependent term.
C1_LastBlockCarriesA ==
    Assembled =>
        \A b \in Batch :
            StaticPart(b, num_time_pts) =
                MatAdd(MatMul(MatMul(A, IF num_time_pts = 2 THEN Q0inv ELSE Qinv), Transpose(A)),
                       Qinv)
\* C1 witness: a run with T >= 3, data in the last block and A nonzero
C1_Witness == LastBlockCase(3)
\* C1 as stated: the last diagonal block is D_T = Qinv + c_psi_inv[T]
C1_LastBlockIsQinv ==
    Assembled => \A b \in Batch : StaticPart(b, num_time_pts) = Qinv

\* C2 (as the code has it): the static term built from Q0inv,
\* A Q0inv A^T + Qinv, is used at t = 2 only; every later block t >= 3, the
\* middle ones included, has D_t = (A Qinv A^T + Qinv) + c_psi_inv[t].
C2_MiddleBlocks ==
    Assembled =>
        \A b \in Batch : \A t \in 2..num_time_pts :
            StaticPart(b, t) =
                MatAdd(MatMul(MatMul(A, IF t = 2 THEN Q0inv ELSE Qinv), Transpose(A)), Qinv)
\* C2 witness: a run with a middle block t = 3 (T = 4) and Q0 different from Q
C2_Witness == Assembled /\ num_time_pts >= 4 /\ Q0 # Q /\ A # ZeroMat(dim_latent)
\* C2 as stated: D_t = (A Q0inv A^T + Qinv) + c_psi_inv[t] at every middle t
C2_MiddleBlocksUseQ0inv ==
    Assembled =>
        \A b \in Batch : \A t \in 2..(num_time_pts - 1) :
            StaticPart(b, t) = MatAdd(MatMul(MatMul(A, Q0inv), Transpose(A)), Qinv)

\* C3: the lower off-diagonal blocks are L_1 = -A Q0inv and L_t = -A Qinv for
\* t in 2..T-1; they are one sequence for the whole batch and do not change
\* with the data terms.
C3_OffDiagonalBlocks ==
    Assembled =>
        \A t \in 1..(num_time_pts - 1) :
            run.fwd.Sinv_ldiag0[t] = MatNeg(MatMul(A, IF t = 1 THEN Q0inv ELSE Qinv))
\* C3 witness: a batch of two sequences with different data, T >= 3, Q0 # Q
C3_Witness ==
    /\ Assembled
    /\ num_time_pts >= 3
    /\ Q0 # Q
    /\ \E b1, b2 \in Batch : run.fwd.c_psi_inv[b1] # run.fwd.c_psi_inv[b2]

\* C4 as stated: for every T >= 1 the graph is built and the operand has
\* exactly T diagonal blocks and T - 1 lower off-diagonal blocks
C4_BlockCounts ==
    (phase # "new" /\ num_time_pts >= 1 /\ dim_latent >= 1) =>
        /\ phase = "built"
        /\ Len(Sinv_diag_static) = num_time_pts
        /\ Len(Sinv_ldiag0) = num_time_pts - 1

\* ------------------------------------------------------------------------
\* Properties of the factorization and of the posterior
\* ------------------------------------------------------------------------
\* the factor of batch element b in the latest run and its operand
FactorOf(b) == run.fwd.chol_decomp_Sinv[b]
DiagOf(b) == run.fwd.Sinv_diag[b]
NoData(b) == \A t \in Times : run.fwd.c_psi_inv[b][t] = ZeroMat(dim_latent)
\* X X^T
Gram(X) == MatMul(X, Transpose(X))
\* the Schur-complement pivot of step t, from the blocks of the factor before it
Pivot(b, t) ==
    IF t = 1 THEN DiagOf(b)[1]
    ELSE MatSub(DiagOf(b)[t], Gram(RightSolveLowerT(run.fwd.Sinv_ldiag0[t - 1], FactorOf(b).C[t - 1])))

\* C5: the assembled matrix is symmetric positive definite: every diagonal
\* block is symmetric, every Schur-complement pivot met by the recursion is
\* positive definite and the factorization of every batch element succeeds.
C5_AssembledIsSPD ==
    Assembled =>
        \A b \in Batch :
            /\ FactorOf(b).ok
            /\ Len(FactorOf(b).C) = num_time_pts
            /\ \A t \in Times : IsSymmetric(DiagOf(b)[t]) /\ IsPosDef(Pivot(b, t))
\* C5 witness: a factorized run with T >= 3, an A that expands (A A^T > I in
\* its first entry) and a sequence with data
C5_Witness ==
    /\ Assembled
    /\ num_time_pts >= 3
    /\ RPos(RatOf(NSub(Gram(A)[1][1], NOne)))
    /\ \E b \in Batch : FactorOf(b).ok /\ ~NoData(b)

\* product of the squares of the entries x[1..t-1][..] and x[t][1..i]
RECURSIVE DiagSquares(_, _, _)
DiagSquares(x, t, i) ==
    IF t = 0 THEN NOne
    ELSE IF i = 0 THEN DiagSquares(x, t - 1, Len(x[1]))
    ELSE NMul(NMul(x[t][i], x[t][i]), DiagSquares(x, t, i - 1))
\* det(Q0) det(Q)^(n)
RECURSIVE PriorDet(_)
PriorDet(n) == IF n = 0 THEN Det(Q0) ELSE NMul(Det(Q), PriorDet(n - 1))

\* C6: for a sequence with no data term the factor's pivots are Q0inv for
\* the first block and Qinv for each other block, and the entropy of a batch
\* of one such sequence is the prior's:
\* 0.5*(log det Q0 + (T-1) log det Q) + (T*d/2)*(1 + log 2 pi), that is the
\* sum of the logs has coefficient -1, the product of the squared diagonal
\* entries times det Q0 det Q^(T-1) is 1, and the Gaussian constant has
\* coefficient T*d/2.
C6_PriorPivotsAndEntropy ==
    Assembled =>
        \A b \in Batch :
            NoData(b) =>
                /\ FactorOf(b).ok
                /\ \A t \in Times :
                      Gram(FactorOf(b).C[t]) = (IF t = 1 THEN Q0inv ELSE Qinv)
                /\ (run.op = "evaluate_entropy" /\ Len(run.fwd.feed) = 1) =>
                      /\ run.entropy.log_coef = <<-1, 1>>
                      /\ run.entropy.gauss_coef = Rat(num_time_pts * dim_latent, 2)
                      /\ NMul(DiagSquares(run.entropy.log_args[b], num_time_pts, dim_latent),
                              PriorDet(num_time_pts - 1)) = NOne
\* C6 witness: the entropy of one sequence without data, T >= 3, Q0 # Q and
\* neither of them the identity
C6_Witness ==
    /\ Assembled
    /\ run.op = "evaluate_entropy"
    /\ Len(run.fwd.feed) = 1
    /\ NoData(1)
    /\ num_time_pts >= 3
    /\ Q0 # Q
    /\ Q0 # Eye(dim_latent)

\* the latest run evaluated the posterior mean
MeanEvaluated ==
    Assembled /\ run.op \in {"get_posterior_means", "generate_samples"} /\ run.status = "ok"
\* block row t of S x for the assembled precision S of batch element b:
\* L_(t-1) x_(t-1) + D_t x_t + L_t^T x_(t+1)
PrecisionRow(b, x, t) ==
    LET L == run.fwd.Sinv_ldiag0
        below == IF t = 1 THEN ZeroVec(dim_latent) ELSE MatVec(L[t - 1], x[t - 1])
        above == IF t = num_time_pts THEN ZeroVec(dim_latent)
                 ELSE MatVec(Transpose(L[t]), x[t + 1])
    IN  VecAdd(VecAdd(below, MatVec(DiagOf(b)[t], x[t])), above)

\* C7: ia_t = c_psi_inv[t] m_psi[t], and the posterior mean, the forward then
\* backward substitution of ia against the factor, satisfies S mean = ia for
\* the assembled precision S.
C7_MeanSolvesNormalEquations ==
    MeanEvaluated =>
        \A b \in Batch : \A t \in Times :
            /\ run.ia[b][t] = MatVec(run.fwd.c_psi_inv[b][t], run.fwd.m_psi[b][t])
            /\ PrecisionRow(b, run.post_z_means[b], t) = run.ia[b][t]
\* C7 witness: a mean of a sequence with data in every block and T*d >= 4
\* latent coordinates, nonzero in every block
C7_Witness ==
    /\ MeanEvaluated
    /\ num_time_pts * dim_latent >= 4
    /\ \E b \in Batch :
          /\ \A t \in Times : run.fwd.c_psi_inv[b][t] # ZeroMat(dim_latent)
          /\ \A t \in Times : run.post_z_means[b][t] # ZeroVec(dim_latent)

\* the factor's blocks are lower triangular with positive diagonal
IsLowerTriangular(X) ==
    \A i \in DOMAIN X : \A j \in DOMAIN X : j > i => X[i][j] = NZero

\* C8: the product C C^T of the factor with diagonal blocks C_t and
\* sub-diagonal blocks E_t reproduces the operand:
\* C_1 C_1^T = D_1, E_(t-1) C_(t-1)^T = L_(t-1) and
\* E_(t-1) E_(t-1)^T + C_t C_t^T = D_t; the factor has T lower-triangular
\* diagonal blocks and T-1 sub-diagonal blocks and nothing else.
C8_FactorReproducesOperand ==
    Assembled =>
        \A b \in Batch :
            FactorOf(b).ok =>
                /\ Len(FactorOf(b).C) = num_time_pts
                /\ Len(FactorOf(b).E) = num_time_pts - 1
                /\ \A t \in Times :
                      /\ IsLowerTriangular(FactorOf(b).C[t])
                      /\ t = 1 => Gram(FactorOf(b).C[1]) = DiagOf(b)[1]
                      /\ t > 1 =>
                            /\ MatMul(FactorOf(b).E[t - 1], Transpose(FactorOf(b).C[t - 1]))
                                  = run.fwd.Sinv_ldiag0[t - 1]
                            /\ MatAdd(Gram(FactorOf(b).E[t - 1]), Gram(FactorOf(b).C[t]))
                                  = DiagOf(b)[t]
\* C8 witness: a factor of d >= 2 blocks that are not diagonal, with data
C8_Witness ==
    /\ Assembled
    /\ dim_latent >= 2
    /\ \E b \in Batch :
          /\ FactorOf(b).ok
          /\ ~NoData(b)
          /\ \E t \in Times : FactorOf(b).C[t][2][1] # NZero

\* the latest run drew a posterior sample
SampleDrawn == Assembled /\ run.op = "generate_samples" /\ run.status = "ok"
\* block row t of C^T x for the factor of batch element b: C_t^T x_t + E_t^T x_(t+1)
FactorTransposeRow(b, x, t) ==
    LET own == MatVec(Transpose(FactorOf(b).C[t]), x[t])
    IN  IF t = num_time_pts THEN own
        ELSE VecAdd(own, MatVec(Transpose(FactorOf(b).E[t]), x[t + 1]))

\* C9: a posterior sample is the posterior mean of the same run plus the
\* backward-only solve of the noise against the same factor:
\* C^T (post_z_samples - post_z_means) = samples_z.
C9_SampleIsMeanPlusHalfSolve ==
    SampleDrawn =>
        \A b \in Batch :
            LET x == Val([t \in Times |-> VecSub(run.post_z_samples[b][t], run.post_z_means[b][t])])
            IN  \A t \in Times : FactorTransposeRow(b, x, t) = run.samples_z[b][t]
\* C9 witness: a sample with nonzero noise in every block, T >= 3, with data
C9_Witness ==
    /\ SampleDrawn
    /\ num_time_pts >= 3
    /\ \E b \in Batch :
          /\ ~NoData(b)
          /\ \A t \in Times : run.samples_z[b][t] # ZeroVec(dim_latent)
          /\ run.post_z_samples[b] # run.post_z_means[b]

\* two successive calls of generate_samples with the same variables and the
\* same observations
SameCallAgain ==
    /\ run.op = "generate_samples"
    /\ run'.op = "generate_samples"
    /\ run.status = "ok"
    /\ run'.fwd = run.fwd

EntropyEvaluated == Assembled /\ run.op = "evaluate_entropy" /\ run.status = "ok"
\* the assembled precision of batch element b as one (T d) x (T d) matrix
DenseOf(b) ==
    LET d == dim_latent
        L == run.fwd.Sinv_ldiag0
    IN  Val([r \in 1..(num_time_pts * d) |->
            Val([c \in 1..(num_time_pts * d) |->
                LET tr == ((r - 1) \div d) + 1
                    ir == ((r - 1) % d) + 1
                    tc == ((c - 1) \div d) + 1
                    ic == ((c - 1) % d) + 1
                IN  IF tr = tc THEN DiagOf(b)[tr][ir][ic]
                    ELSE IF tr = tc + 1 THEN L[tc][ir][ic]
                    ELSE IF tc = tr + 1 THEN L[tr][ic][ir]
                    ELSE NZero])])

\* C11: the entropy is -(sum over t, i of the batch mean of log C_t[i,i])
\* + (T d / 2)(1 + log 2 pi): the logarithms are those of the diagonal entries
\* of the factor's diagonal blocks, their sum has the coefficient -1/B for a
\* batch of B, the Gaussian constant has the coefficient T d / 2, and
\* logdet S = 2 sum log C_t[i,i], that is det S is the product of the squared
\* diagonal entries, for every batch element.
C11_EntropyFormula ==
    EntropyEvaluated =>
        /\ run.entropy.log_coef = RNeg(Rat(1, Len(run.fwd.feed)))
        /\ run.entropy.gauss_coef = Rat(num_time_pts * dim_latent, 2)
        /\ \A b \in Batch :
              /\ \A t \in Times : \A i \in 1..dim_latent :
                    run.entropy.log_args[b][t][i] = FactorOf(b).C[t][i][i]
              /\ DiagSquares(run.entropy.log_args[b], num_time_pts, dim_latent)
                    = Det(DenseOf(b))
\* C11 witness: the entropy of a batch of two sequences with different data
\* whose factors differ, T d >= 4
C11_Witness ==
    /\ EntropyEvaluated
    /\ num_time_pts * dim_latent >= 4
    /\ Len(run.fwd.feed) = 2
    /\ run.entropy.log_args[1] # run.entropy.log_args[2]

\* C12 as stated: with a single time block (T = 1) the graph is built and can
\* be evaluated (the posterior mean being D_1^-1 ia_1)
C12_SingleBlockBuilds ==
    (num_time_pts = 1 /\ dim_latent >= 1 /\ phase # "new") => phase = "built"

\* C13 as stated: an empty sequence (T = 0) or a zero latent dimension (d = 0)
\* is rejected when the object is constructed, so no SmoothingLDS object with
\* such a dimension exists, neither constructed nor with build_graph called
C13_ZeroDimensionsRejected == dim_latent >= 1 /\ num_time_pts >= 1

\* ------------------------------------------------------------------------
\* Properties of the runs whose data term is supplied by the caller
\* ------------------------------------------------------------------------
\* the latest run got as far as the factorization
Factorized == phase = "built" /\ "fwd" \in DOMAIN run
\* what a run returns to its caller
Returned == {"ia", "post_z_means", "samples_z", "post_z_samples", "entropy"}

\* C14: when a Schur-complement block D_t - E_(t-1) E_(t-1)^T is not positive
\* definite the evaluation ends in an error raised to the caller: the
\* factorization stops at that block (no retry), the operand is the static
\* term plus the supplied data term and nothing else (no regularization), and
\* the run returns no mean, no sample and no entropy.  The blocks before the
\* failing one are the factors of positive definite pivots, and a run whose
\* pivots are all positive definite does not fail.
C14_FailureIsSurfaced ==
    Factorized =>
        /\ \A b \in Batch :
              LET k == Len(FactorOf(b).C)
              IN  /\ \A t \in Times :
                        DiagOf(b)[t] = MatAdd(Sinv_diag_static[t], run.fwd.c_psi_inv[b][t])
                  /\ \A t \in 1..k : IsPosDef(Pivot(b, t))
                  /\ FactorOf(b).ok <=> k = num_time_pts
                  /\ k < num_time_pts =>
                        /\ ~IsPosDef(Pivot(b, k + 1))
                        /\ run.status = "InvalidArgumentError"
                        /\ (DOMAIN run) \cap Returned = {}
        /\ run.status = "ok" <=> \A b \in Batch : FactorOf(b).ok
\* C14 witness: a run that failed at a Schur-complement block t >= 3 after
\* the blocks before it were factorized
C14_Witness ==
    /\ Factorized
    /\ run.status = "InvalidArgumentError"
    /\ \E b \in Batch : Len(FactorOf(b).C) >= 2 /\ ~FactorOf(b).ok

\* the latest run was given a data term by its caller
Supplied == phase = "built" /\ "fed" \in DOMAIN run
\* x is a batch of sequences of T blocks of size d x d
HasShape(x, T, d) ==
    \A b \in DOMAIN x :
        /\ DOMAIN x[b] = 1..T
        /\ \A t \in DOMAIN x[b] :
              /\ DOMAIN x[b][t] = 1..d
              /\ \A i \in DOMAIN x[b][t] : DOMAIN x[b][t][i] = 1..d

C16_JitterAdded ==
    (phase = "built" /\ run.op = "get_params") =>
        /\ run.ret.Q = MatAdd(Gram(Q_sqrt), MatScale(Rat(1, 1000000), Eye(dim_latent)))
        /\ run.ret.Q0 = MatAdd(Gram(Q0_sqrt), MatScale(Rat(1, 1000000), Eye(dim_latent)))

\* C17: every evaluation uses tensors derived from the parameter values and
\* the data of that evaluation: the data term and the mean term are those of
\* the observations fed, the off-diagonal blocks and the static part of the
\* diagonal blocks are those of the current A, Q_sqrt, Q0_sqrt, the factor is
\* the factor of that operand, and get_params returns the current A and the
\* products Q, Q0 of the current square roots.
C17_RecomputedEveryCall ==
    /\ Assembled =>
          /\ run.fwd.m_psi = m_psi_of(run.fwd.feed)
          /\ run.fwd.c_psi_inv = c_psi_inv(r_psi_sqrt_of(run.fwd.feed))
          /\ run.fwd.Sinv_ldiag0 = Sinv_ldiag0
          /\ \A b \in Batch :
                /\ \A t \in Times :
                      DiagOf(b)[t] = MatAdd(Sinv_diag_static[t], run.fwd.c_psi_inv[b][t])
                /\ Gram(FactorOf(b).C[1]) = MatAdd(Q0inv, run.fwd.c_psi_inv[b][1])
                /\ MatMul(FactorOf(b).E[1], Transpose(FactorOf(b).C[1])) = AQ0inv
    /\ (phase = "built" /\ run.op = "get_params") =>
          /\ run.ret.A = A
          /\ run.ret.Q = Gram(Q_sqrt)
          /\ run.ret.Q0 = Gram(Q0_sqrt)
\* C17 witness: an evaluation with data after the parameters were updated
\* to values that change every static tensor
C17_Witness ==
    /\ Assembled
    /\ A # DefaultValues(dim_latent).A
    /\ Q0inv # Eye(dim_latent)
    /\ \E b \in Batch : ~NoData(b)

\* a step that is an evaluation: a run of the built graph
EvaluationStep == phase = "built" /\ run'.op # "none"

\* C18: an evaluation (generate_samples, get_posterior_means, a run of the
\* entropy, get_params) leaves A, z0_mean, Q_sqrt and Q0_sqrt as they were, so
\* the evaluations between two optimizer updates all see the same values.
C18_EvaluationsOnlyRead ==
    [][EvaluationStep => UNCHANGED <<A, z0_mean, Q_sqrt, Q0_sqrt>>]_vars
\* C18 witness: get_params after an update, returning the updated values,
\* which are still the values of the variables
C18_Witness ==
    /\ phase = "built"
    /\ run.op = "get_params"
    /\ run.ret.A = A
    /\ run.ret.Q_sqrt = Q_sqrt
    /\ run.ret.z0_mean = z0_mean
    /\ A # DefaultValues(dim_latent).A
    /\ z0_mean # DefaultValues(dim_latent).z0_mean

\* ------------------------------------------------------------------------
\* Properties of the batch and of the initial values
\* ------------------------------------------------------------------------
\* the run r returned posterior means
MeansReturned(r) == "post_z_means" \in DOMAIN r
\* the run r returned posterior samples
SamplesReturned(r) == "post_z_samples" \in DOMAIN r
\* element c of run s has the data terms of element b of run r
SameSequence(r, b, s, c) ==
    /\ s.fwd.m_psi[c] = r.fwd.m_psi[b]
    /\ s.fwd.c_psi_inv[c] = r.fwd.c_psi_inv[b]

\* C19: with the variables left alone, a batch element's posterior mean is
\* fixed by its own data terms, and its posterior sample by its own data terms
\* and its own noise: two successive runs give the same mean (and, with the
\* same noise, the same sample) to a sequence whatever its place in the batch
\* and whatever the other elements of the batch.
C19_BatchElementsIndependent ==
    [][(phase = "built" /\ MeansReturned(run) /\ MeansReturned(run')) =>
        \A b \in BatchOf(run.post_z_means), c \in BatchOf(run'.post_z_means) :
            SameSequence(run, b, run', c) =>
                /\ run'.post_z_means[c] = run.post_z_means[b]
                /\ (/\ SamplesReturned(run)
                    /\ SamplesReturned(run')
                    /\ run'.samples_z[c] = run.samples_z[b])
                        => run'.post_z_samples[c] = run.post_z_samples[b]]_vars
\* C19 witness: two successive calls of generate_samples on different batches
\* that share a sequence and its noise, with several time points and latents
C19_Witness == SampleDrawn /\ apart /\ num_time_pts >= 2 /\ dim_latent >= 2

\* a step that creates the variables and assembles the graph
VariablesCreated == phase = "new" /\ phase' = "built"

\* C20 as stated: a variable for which the caller supplied an initial value
\* is created with that value (and with its default only when none was
\* supplied)
C20_SuppliedValuesUsed ==
    [][VariablesCreated =>
        /\ "z0_mean" \in DOMAIN gen_params => z0_mean' = gen_params.z0_mean
        /\ "A" \in DOMAIN gen_params => A' = gen_params.A
        /\ "Q_sqrt" \in DOMAIN gen_params => Q_sqrt' = gen_params.Q_sqrt
        /\ "Q0_sqrt" \in DOMAIN gen_params => Q0_sqrt' = gen_params.Q0_sqrt]_vars
\* ------------------------------------------------------------------------
\* Properties of the data term
\* ------------------------------------------------------------------------
\* the elements of the index set S in increasing order
IndexSeq(S) ==
    Val([k \in 1..Cardinality(S) |-> CHOOSE i \in S : Cardinality({j \in S : j < i}) = k - 1])
\* the principal submatrix of M on the rows and columns S
Principal(M, S) ==
    LET ix == IndexSeq(S)
    IN  Val([a \in 1..Len(ix) |-> Val([b \in 1..Len(ix) |-> M[ix[a]][ix[b]]])])
\* a symmetric matrix is positive semidefinite when no principal minor is
\* negative
IsPosSemiDef(M) ==
    /\ IsSymmetric(M)
    /\ \A S \in (SUBSET (1..Rows(M))) \ {{}} :
          LET m == Det(Principal(M, S)) IN IsRational(m) /\ RatOf(m)[1] >= 0

\* C23 as stated: every data-dependent precision block is symmetric positive
\* definite
C23_DataBlocksPosDef ==
    Assembled =>
        \A b \in Batch : \A t \in Times :
            IsSymmetric(run.fwd.c_psi_inv[b][t]) /\ IsPosDef(run.fwd.c_psi_inv[b][t])

\* C23 amended: every data-dependent precision block is d x d, symmetric and
\* positive semidefinite, and it is positive definite exactly when the
\* encoder output r_psi_sqrt[t] it is made of is nonsingular.
C23_DataBlocksPosSemiDef ==
    Assembled =>
        \A b \in Batch : \A t \in Times :
            LET c == run.fwd.c_psi_inv[b][t]
                r == run.fwd.r_psi_sqrt[b][t]
            IN  /\ Rows(c) = dim_latent
                /\ \A i \in 1..Rows(c) : Len(c[i]) = dim_latent
                /\ c = MatMul(r, Transpose(r))
                /\ IsPosSemiDef(c)
                /\ IsPosDef(c) <=> Invertible(r)
\* C23 witness: a batch with a singular nonzero block and a nonsingular
\* block that is not symmetric itself
C23_Witness ==
    /\ Assembled
    /\ dim_latent >= 2
    /\ \E b \in Batch : \E t \in Times :
          /\ ~Invertible(run.fwd.r_psi_sqrt[b][t])
          /\ run.fwd.r_psi_sqrt[b][t] # ZeroMat(dim_latent)
    /\ \E b \in Batch : \E t \in Times :
          /\ Invertible(run.fwd.r_psi_sqrt[b][t])
          /\ ~IsSymmetric(run.fwd.r_psi_sqrt[b][t])

\* ------------------------------------------------------------------------
\* Properties of the generative models
\* ------------------------------------------------------------------------
\* the latest call on the generative model was get_params
ParamsRead == gen.phase = "built" /\ gen.run.op = "get_params"

\* C21 as stated: the dictionary get_params returns has the canonical
\* learnable parameters A, Q_sqrt and Q0_sqrt
C21_FullDictionary ==
    ParamsRead => {"A", "Q_sqrt", "Q0_sqrt"} \subseteq DOMAIN gen.run.ret

\* C26 as stated: a PLDS constructed with a spiking_nl whose value is one of
\* the three names has the matching nonlinearity, and a construction with any
\* other value raised ValueError
C26_EqualValueSelects ==
    (gen.phase # "none" /\ InitOf(gen.cls) = "PLDS") =>
        CASE gen.arg.value = "softplus" -> gen.spiking_nl = "tf.nn.softplus"
          [] gen.arg.value = "exponential" -> gen.spiking_nl = "tf.exp"
          [] gen.arg.value = "relu" -> gen.spiking_nl = "tf.nn.relu"
          [] OTHER -> gen.error = "ValueError"

\* C28 as stated: once build_graph has called _initialize_mapping, every
\* attribute _apply_mapping and _sample_yz read is defined
C28_MappingDefinesReads ==
    (gen.phase # "none" /\ DOMAIN gen.attrs # {}) =>
        ApplyMappingReads \cup SampleReads(gen.cls) \subseteq DOMAIN gen.attrs

\* the parameters of an LDS
LDSParamNames == {"z0_mean", "A", "Q_sqrt", "Q0_sqrt", "C", "d", "Rsqrt"}
\* build_graph of an LDS that was constructed from the dictionary of another
Restored ==
    /\ gen.phase = "new"
    /\ gen.cls = "LDS"
    /\ DOMAIN gen.orig # {}
    /\ gen'.phase = "built"

\* C30 as stated: the new LDS has every parameter at the value the original
\* model held
C30_RoundTrip ==
    [][Restored => \A k \in LDSParamNames : gen'.attrs[k] = gen.orig[k]]_vars

\* the latest call on the generative model was sample
Sampled == gen.phase = "built" /\ gen.run.op = "sample"
\* the trajectory of batch element b of the latest sample obeys the recursion
\* of the LDS prior at the steps from..T
TrajectoryFrom(b, from) ==
    LET z == gen.run.z[b]
        y == gen.run.y[b]
        eps == gen.run.noise.latent[b]
        eta == gen.run.noise.obs[b]
        a == gen.attrs
    IN  /\ Len(z) = gen.num_time_pts
        /\ Len(y) = gen.num_time_pts
        /\ from = 1 => z[1] = VecAdd(a.z0_mean[1], MatVec(a.Q0_sqrt, eps[1]))
        /\ \A t \in 2..gen.num_time_pts :
              z[t] = VecAdd(MatVec(a.A, z[t - 1]), MatVec(a.Q_sqrt, eps[t]))
        /\ \A t \in from..gen.num_time_pts :
              y[t] = VecAdd(VecAdd(MatVec(Transpose(a.C), z[t]), a.d[1]),
                            Val([j \in DOMAIN eta[t] |-> NMul(a.Rsqrt[1][j], eta[t][j])]))

\* C24 as stated: for every T >= 1 sampling gives a trajectory of exactly T
\* steps, z_1 = z0_mean + Q0_sqrt eps_1, z_t = A z_(t-1) + Q_sqrt eps_t, and
\* the observation of step t made from the latent of step t
C24_PriorTrajectory ==
    Sampled =>
        /\ gen.run.status = "ok"
        /\ \A b \in DOMAIN gen.run.noise.latent : TrajectoryFrom(b, 1)

\* the latest call on the generative model was log_density
DensityEvaluated == gen.phase = "built" /\ gen.run.op = "log_density"
\* x^T W x for a column vector x
QuadForm(x, W) == Dot(x, MatVec(W, x))

\* C25: the prior term is -0.5 times [one initial term (z_1 - z0_mean)^T Q0inv
\* (z_1 - z0_mean) + log det Q0, the T-1 transition terms (z_t - A z_(t-1))^T
\* Qinv (z_t - A z_(t-1)) + (T-1) log det Q, and T d log(2 pi)], the quadratic
\* terms averaged over the batch and the Monte Carlo samples, and
\* log_density returns the prior term plus the likelihood term
C25_PriorDensity ==
    DensityEvaluated =>
        LET a == gen.attrs
            T == gen.num_time_pts
            z == gen.run.args.z
            lz == gen.run.log_density_z
            score(b, m) ==
                NAdd(QuadForm(VecSub(z[b][m][1], a.z0_mean[1]), gen.run.self.Q0inv),
                     NSum(Val([t \in 1..(T - 1) |->
                                 QuadForm(VecSub(z[b][m][t + 1], MatVec(a.A, z[b][m][t])),
                                          gen.run.self.Qinv)]), T - 1))
            B == Len(z)
            M == Len(z[1])
            total == NSum(Val([k \in 1..(B * M) |->
                                 score(((k - 1) \div M) + 1, ((k - 1) % M) + 1)]), B * M)
        IN  /\ lz.quad = NScale(Rat(-1, 2 * B * M), total)
            /\ lz.logdet = LogSum(LogTerm(gen.run.self.Q0, Rat(-1, 2)),
                                  LogTerm(gen.run.self.Q, Rat(-(T - 1), 2)))
            /\ DOMAIN lz.logs = {}
            /\ lz.log2pi = Rat(-(T * gen.dim_latent), 2)
            /\ gen.run.ret = DensitySum(lz, gen.run.log_density_y)
\* C25 witness: several trajectories of three or more steps in two latent
\* dimensions scored under Q different from Q0, with a nonzero quadratic part
C25_Witness ==
    /\ DensityEvaluated
    /\ gen.num_time_pts >= 3
    /\ gen.dim_latent = 2
    /\ gen.attrs.Q_sqrt # gen.attrs.Q0_sqrt
    /\ Len(gen.run.args.z) * Len(gen.run.args.z[1]) >= 2
    /\ gen.run.log_density_z.quad # NZero
    /\ gen.run.log_density_y.quad # NZero

\* ------------------------------------------------------------------------
\* Properties of the coupled pair
\* ------------------------------------------------------------------------
\* both objects of the pair were built from the tuple
PairBuilt == pair.phase = "vars" /\ DOMAIN pair.gen # {} /\ DOMAIN pair.inf # {}
\* the number of the object the tuple has for the name n
TupleObject(n) == pair.tuple[CHOOSE k \in DOMAIN CoupledReturn : CoupledReturn[k] = n]

\* C22: once both objects are built from the tuple, for each of z0_mean, A,
\* Q_sqrt, Q, Qinv, Q0_sqrt, Q0, Q0inv the attribute of that name refers in
\* both objects to the one object the tuple has for that name; the builds
\* created no other object; the value assigned last through one object is the
\* value read through the other
C22_SameObjects ==
    PairBuilt =>
        /\ \A n \in {CoupledReturn[k] : k \in DOMAIN CoupledReturn} :
              /\ pair.gen[n] = TupleObject(n)
              /\ pair.inf[n] = TupleObject(n)
              /\ pair.objects[pair.gen[n]].name = n
        /\ DOMAIN pair.objects = {pair.tuple[k] : k \in DOMAIN pair.tuple}
        /\ pair.last.op = "assign" =>
              /\ pair.objects[pair.gen[pair.last.name]].value = pair.last.value
              /\ pair.objects[pair.inf[pair.last.name]].value = pair.last.value
\* C22 witness: both built, and A assigned through the LDSCoupled after Q_sqrt
\* was given another value
C22_Witness ==
    /\ PairBuilt
    /\ pair.last.op = "assign"
    /\ pair.last.side = "gen"
    /\ pair.last.name = "A"
    /\ pair.objects[pair.inf["Q_sqrt"]].value \notin {"default", "supplied", pair.last.value}

\* ------------------------------------------------------------------------
\* Properties of the inference networks
\* ------------------------------------------------------------------------
\* evaluate_entropy was applied to the log-variances
EntropyApplied == mf.phase = "log_vars" /\ mf.run.op = "evaluate_entropy"
\* the log-variances with the entry [b][t][i] raised by one
RaisedLogVars(lv, b, t, i) == [lv EXCEPT ![b][t][i] = NAdd(lv[b][t][i], NOne)]

\* C27 as stated: the entropy is 0.5 * (the sum over t and i of the
\* batch-averaged log-variances) + (T d / 2) (1 + log 2 pi), and it becomes
\* larger when a log-variance becomes larger
C27_EntropyOfLogVars ==
    EntropyApplied =>
        LET lv == mf.post_z_log_vars
            d == mf.dim_latent
            T == mf.num_time_pts
            B == Len(lv)
            avg(t, i) == NScale(Rat(1, B), NSum(Val([b \in 1..B |-> lv[b][t][i]]), B))
            total == NSum(Val([k \in 1..(T * d) |->
                                 avg(((k - 1) \div d) + 1, ((k - 1) % d) + 1)]), T * d)
        IN  /\ mf.run.entropy.lin = NScale(Rat(1, 2), total)
            /\ mf.run.entropy.const = Rat(T * d, 2)
            /\ \A b \in 1..B, t \in 1..T, i \in 1..d :
                  RPos(RatOf(NSub(MF_evaluate_entropy(RaisedLogVars(lv, b, t, i), d, T).lin,
                                  mf.run.entropy.lin)))

\* C29 as stated: after build_graph, whatever generate_samples and
\* get_posterior_means use as a feed key is an attribute that holds a single
\* placeholder, and a call of either ends with no AttributeError and no
\* TypeError
C29_FeedKeysArePlaceholders ==
    mf.phase \in {"built", "error"} =>
        /\ \A method \in InferenceMethods :
              LET reads == MethodReads(mf.cls, method)
              IN  \A k \in DOMAIN reads :
                     reads[k].use # "fetch" =>
                        /\ reads[k].attr \in DOMAIN mf.attrs
                        /\ mf.attrs[reads[k].attr] = "placeholder"
        /\ mf.run.op \in InferenceMethods => mf.run.error = "none"

====
